---- MODULE Spec2Model ----
(***************************************************************************)
(* A model of decant: offline compaction of a JSONL conversation           *)
(* transcript.  The record sequence (session.py), the graph walks          *)
(* (walk_main_chain, collect_tail_uuids), the boundary resolver and the    *)
(* splice (compactor.py) and the noise-stripping strategies (strip.py).    *)
(*                                                                         *)
(* A uuid is a positive integer; None stands for every falsy value a       *)
(* uuid field can hold in Python (absent key, null, empty string): the     *)
(* code only ever tests these fields for truthiness or equality.           *)
(***************************************************************************)
EXTENDS Integers, Sequences, FiniteSets, TLC

VARIABLES
    messages,       \* the loaded record list (list[dict])
    pc,             \* position of the running routine
    boundary_uuid,  \* argument of collect_tail_uuids / compact
    current,        \* walk_main_chain: index of `current` in messages, 0 = None
    chain,          \* walk_main_chain: list of record indices
    visited,        \* walk_main_chain: set of uuids
    tail,           \* collect_tail_uuids: set of uuids
    queue,          \* collect_tail_uuids: list of uuids
    iters,          \* loop bodies executed by the running routine (history)
    disk,           \* the session file: its lines
    backup_file,    \* the .jsonl.bak copy: <<>> when none, else <<its lines>>
    tail_uuids,     \* compact: the set collect_tail_uuids returned
    new_messages,   \* compact: the list handed to save_messages
    stats,          \* compact: the dict it returns
    count,          \* find_boundary_by_count: its argument
    outcome,        \* find_boundary_by_count: the uuid returned or the error raised
    strategy,       \* strip.py: the strategy being applied
    passes,         \* strip.py: what each application returned, (messages, saved)
    tmp,            \* save_messages: the temporary file
    previous,       \* the session file as the running routine found it (history)
    log,            \* the copies and writes of the session file, in order (history)
    opts,           \* the arguments of the run
    response,       \* find_boundary_by_topic: the text the service answered
    platform,       \* auth.py: sys.platform
    keychain,       \* auth.py: the Keychain item of each service name
    cred_file,      \* auth.py: ~/.claude/.credentials.json
    calls,          \* auth.py: the accesses to the two stores, in order (history)
    loaded,         \* auth.py: what _load_credentials returned
    before,         \* auth.py: the two stores as the save found them (history)
    exchanges       \* extract_exchanges: the list it returned

vars == <<messages, pc, boundary_uuid, current, chain, visited, tail, queue, iters,
          disk, backup_file, tail_uuids, new_messages, stats, count, outcome,
          strategy, passes, tmp, previous, log, opts, response,
          platform, keychain, cred_file, calls, loaded, before, exchanges>>

saveVars == <<tmp, previous, log, opts>>

authVars == <<platform, keychain, cred_file, calls, loaded, before>>

\* what the graph walks leave alone
GraphFrame ==
    UNCHANGED <<disk, backup_file, tail_uuids, new_messages, stats, count, outcome,
                strategy, passes, saveVars, response, authVars, exchanges>>

\* what compact leaves alone
CompactFrame ==
    UNCHANGED <<current, chain, visited, tail, queue, iters, count, outcome,
                strategy, passes, saveVars, response, authVars, exchanges>>

\* what the boundary resolver leaves alone
BoundaryFrame ==
    UNCHANGED <<boundary_uuid, current, chain, visited, tail, queue, iters,
                disk, backup_file, tail_uuids, new_messages, stats,
                strategy, passes, saveVars, response, authVars, exchanges>>

\* what the stripping strategies leave alone
StripFrame ==
    UNCHANGED <<boundary_uuid, current, chain, visited, tail, queue, iters,
                disk, backup_file, tail_uuids, new_messages, stats, count, outcome,
                saveVars, response, authVars, exchanges>>

\* what save_messages leaves alone
SaveFrame ==
    UNCHANGED <<boundary_uuid, current, chain, visited, tail, queue,
                tail_uuids, new_messages, stats, count, outcome, strategy, passes,
                log, opts, response, authVars, exchanges>>

\* what the topic resolver leaves alone
TopicFrame ==
    UNCHANGED <<boundary_uuid, current, chain, visited, tail, queue, iters,
                disk, backup_file, tail_uuids, new_messages, stats, count,
                strategy, passes, saveVars, authVars, exchanges>>

\* what the credential stores' routines leave alone
AuthFrame ==
    UNCHANGED <<messages, boundary_uuid, current, chain, visited, tail, queue, iters,
                disk, backup_file, tail_uuids, new_messages, stats, count, outcome,
                strategy, passes, saveVars, response, exchanges>>

\* what extract_exchanges leaves alone
ExchangeFrame ==
    UNCHANGED <<boundary_uuid, current, visited, tail, queue, iters,
                disk, backup_file, tail_uuids, new_messages, stats, count, outcome,
                strategy, passes, saveVars, response, authVars>>

----------------------------------------------------------------------------
(* Bounds of the model *)

\* number of distinct uuids in the graph-walk inputs
GraphUuids == 3
\* longest record list given to the graph walks
GraphMsgs == 3

----------------------------------------------------------------------------
(* Data model *)

None == 0

NoContent == [kind |-> "none", text |-> <<>>, blocks |-> <<>>]

\* one parsed line of the transcript, fields read with msg.get(...)
Msg(u, p, t, side) ==
    [uuid |-> u, parentUuid |-> p, type |-> t, isSidechain |-> side,
     role |-> "", content |-> NoContent, messageId |-> None]

\* A line of a file is a text: the text of a JSON object, or a text that
\* json.loads rejects.  The text of an object is the object and how its
\* non-ASCII characters are written: as \uXXXX escapes (ascii) or as
\* themselves.  A text with no such character is written one way only.
JsonText(obj, ascii) == [json |-> obj, ascii |-> ascii]

RawText(g) == [raw |-> g]

\* does json.loads(line) return, or raise JSONDecodeError
Decodable(line) == "json" \in DOMAIN line

\* json.loads(line) of a decodable line
loads(line) == line.json

\* json.dumps(obj, separators=(",", ":")): ensure_ascii is left at True
dumps(obj) == JsonText(obj, TRUE)

\* load_messages: msg["_line_index"] = i on a parsed line ("line_index" is
\* the key "_line_index")
Loaded(line, i) == line @@ [line_index |-> i]

\* load_messages: {"_raw": line, "_parse_error": True, "_line_index": i},
\* a dict that has no uuid, parentUuid, type, ... key
Opaque(line, i) ==
    ("_raw" :> line) @@ ("_parse_error" :> TRUE) @@ [line_index |-> i]
        @@ Msg(None, None, "", FALSE)

\* load_messages on the lines of a file (none of them blank)
load_messages(lines) ==
    [i \in 1..Len(lines) |->
        IF Decodable(lines[i]) THEN Loaded(loads(lines[i]), i - 1)
        ELSE Opaque(lines[i], i - 1)]

\* the keys of the model for which k.startswith("_") holds
UnderscoreKeys == {"line_index", "_raw", "_parse_error", "_note"}

\* save_messages: `clean = {k: v for k, v in msg.items() if not
\* k.startswith("_")}`
Clean(msg) == [k \in DOMAIN msg \ UnderscoreKeys |-> msg[k]]

\* `if msg.get("_parse_error")`
ParseError(msg) == "_parse_error" \in DOMAIN msg /\ msg["_parse_error"]

\* the line save_messages writes for one record
SavedLine(msg) == IF ParseError(msg) THEN msg["_raw"] ELSE dumps(Clean(msg))

\* the lines save_messages writes, one per record
save_messages(msgs) == [i \in 1..Len(msgs) |-> SavedLine(msgs[i])]

NoOutcome == [status |-> "none", uuid |-> None]

\* a credential store that holds nothing: no Keychain item, no file
NoStore == [kind |-> "none", oauth |-> 0, other |-> 0]

NoCreds == [status |-> "none", creds |-> 0, source |-> ""]

NoStats == [original_messages |-> 0, final_messages |-> 0, removed_messages |-> 0]

SeqsUpTo(S, n) == UNION {[1..k -> S] : k \in 0..n}

Reverse(s) == [i \in 1..Len(s) |-> s[Len(s) + 1 - i]]

Range(s) == {s[i] : i \in 1..Len(s)}

----------------------------------------------------------------------------
(* session.py: lookups *)

\* build_uuid_map(messages).get(u) for a truthy u: a dict comprehension keeps
\* the last record of each key; the result is its index, 0 when there is none
UuidMapGet(msgs, u) ==
    LET hits == {i \in 1..Len(msgs) : msgs[i].uuid = u}
    IN  IF hits = {} THEN 0 ELSE CHOOSE i \in hits : \A j \in hits : j <= i

\* build_children_map(messages).get(u, []): child uuids in list order
RECURSIVE ChildrenFrom(_, _, _)
ChildrenFrom(msgs, u, i) ==
    IF i > Len(msgs) THEN <<>>
    ELSE IF msgs[i].parentUuid # None /\ msgs[i].uuid # None /\ msgs[i].parentUuid = u
         THEN <<msgs[i].uuid>> \o ChildrenFrom(msgs, u, i + 1)
         ELSE ChildrenFrom(msgs, u, i + 1)

ChildrenMapGet(msgs, u) == ChildrenFrom(msgs, u, 1)

IsMainCandidate(m) ==
    /\ ~m.isSidechain
    /\ m.uuid # None
    /\ m.type \in {"user", "assistant"}

\* find_last_main_chain_message: index of the record, 0 for None
find_last_main_chain_message(msgs) ==
    LET hits == {i \in 1..Len(msgs) : IsMainCandidate(msgs[i])}
    IN  IF hits = {} THEN 0 ELSE CHOOSE i \in hits : \A j \in hits : j <= i

----------------------------------------------------------------------------
(* session.py: walk_main_chain, one loop body at a time *)

\* mutant: the cycle guard never fires
WalkRevisitedNever(uid, seen) == FALSE

\* `if uid in visited: break  # Cycle detected`
WalkRevisited(uid, seen) == uid \in seen

\* one pass through the body of `while current:`; cur is the index of
\* `current`.  stop is TRUE when the loop ends: at a break, or when the
\* lookup of the parent gives None.
WalkBody(msgs, cur, ch, seen) ==
    LET uid == msgs[cur].uuid
        parent_uuid == msgs[cur].parentUuid
    IN  IF WalkRevisited(uid, seen)
        THEN [current |-> cur, chain |-> ch, visited |-> seen, stop |-> TRUE]
        ELSE IF parent_uuid = None
        THEN [current |-> cur, chain |-> Append(ch, cur),
              visited |-> seen \cup {uid}, stop |-> TRUE]
        ELSE [current |-> UuidMapGet(msgs, parent_uuid), chain |-> Append(ch, cur),
              visited |-> seen \cup {uid},
              stop |-> UuidMapGet(msgs, parent_uuid) = 0]

\* uuid_map = ...; last = find_last_main_chain_message(messages);
\* if not last: return []
WalkStart ==
    /\ pc = "idle"
    /\ LET last == find_last_main_chain_message(messages)
       IN  /\ current' = last
           /\ pc' = IF last = 0 THEN "walk_done" ELSE "walk_loop"
    /\ chain' = <<>>
    /\ visited' = {}
    /\ iters' = 0
    /\ UNCHANGED <<messages, boundary_uuid, tail, queue>>
    /\ GraphFrame

WalkStep ==
    /\ pc = "walk_loop"
    /\ LET r == WalkBody(messages, current, chain, visited)
       IN  /\ current' = r.current
           /\ chain' = r.chain
           /\ visited' = r.visited
           /\ pc' = IF r.stop THEN "walk_reverse" ELSE "walk_loop"
    /\ iters' = iters + 1
    /\ UNCHANGED <<messages, boundary_uuid, tail, queue>>
    /\ GraphFrame

\* mutant: the chain is returned tail first
WalkReverseSkipped ==
    /\ pc = "walk_reverse"
    /\ pc' = "walk_done"
    /\ UNCHANGED <<messages, boundary_uuid, current, chain, visited, tail, queue, iters>>
    /\ GraphFrame

\* chain.reverse(); return chain
WalkReverse ==
    /\ pc = "walk_reverse"
    /\ chain' = Reverse(chain)
    /\ pc' = "walk_done"
    /\ UNCHANGED <<messages, boundary_uuid, current, visited, tail, queue, iters>>
    /\ GraphFrame

----------------------------------------------------------------------------
(* session.py: collect_tail_uuids, one loop body at a time *)

\* `if uid in tail: continue  # Cycle protection`
TailSeen(uid, t) == uid \in t

\* mutant: the children replace the queue instead of extending it
TailBodyDropsQueue(msgs, t, q) ==
    LET uid == Head(q)
    IN  IF TailSeen(uid, t)
        THEN [tail |-> t, queue |-> Tail(q)]
        ELSE [tail |-> t \cup {uid}, queue |-> ChildrenMapGet(msgs, uid)]

\* one pass through the body of `while queue:`
TailBody(msgs, t, q) ==
    LET uid == Head(q)
    IN  IF TailSeen(uid, t)
        THEN [tail |-> t, queue |-> Tail(q)]
        ELSE [tail |-> t \cup {uid}, queue |-> Tail(q) \o ChildrenMapGet(msgs, uid)]

\* the caller's boundary argument: any uuid some record carries
RecordUuids(msgs) == {msgs[i].uuid : i \in 1..Len(msgs)} \ {None}

TailStart ==
    /\ pc = "idle"
    /\ \E b \in RecordUuids(messages) :
          /\ boundary_uuid' = b
          /\ queue' = <<b>>
    /\ tail' = {}
    /\ iters' = 0
    /\ pc' = "tail_loop"
    /\ UNCHANGED <<messages, current, chain, visited>>
    /\ GraphFrame

TailStep ==
    /\ pc = "tail_loop"
    /\ queue # <<>>
    /\ LET r == TailBody(messages, tail, queue)
       IN  /\ tail' = r.tail
           /\ queue' = r.queue
    /\ iters' = iters + 1
    /\ UNCHANGED <<messages, pc, boundary_uuid, current, chain, visited>>
    /\ GraphFrame

\* `while queue:` is false; return tail
TailReturn ==
    /\ pc = "tail_loop"
    /\ queue = <<>>
    /\ pc' = "tail_done"
    /\ UNCHANGED <<messages, boundary_uuid, current, chain, visited, tail, queue, iters>>
    /\ GraphFrame

----------------------------------------------------------------------------
(* The graph walks on every bounded record list *)

Max(a, b) == IF a >= b THEN a ELSE b

Min(a, b) == IF a <= b THEN a ELSE b

\* the largest uuid a record list mentions, 0 when it mentions none
RECURSIVE MaxUuid(_)
MaxUuid(msgs) ==
    IF msgs = <<>> THEN 0
    ELSE Max(MaxUuid(Tail(msgs)),
             Max(Head(msgs).uuid, Max(Head(msgs).parentUuid, Head(msgs).messageId)))

\* load_messages appends one more parsed line.  A uuid is an opaque key
\* the code only compares for equality, so a line that brings a new uuid
\* brings the next unused one: every record list over GraphUuids uuids is
\* built, up to a renaming of its uuids.  uuid and parentUuid may each be
\* missing; the line is a user message or a progress tick.
GraphLoad ==
    /\ pc = "idle"
    /\ Len(messages) < GraphMsgs
    /\ \E u \in 0..Min(MaxUuid(messages) + 1, GraphUuids) :
       \E p \in 0..Min(Max(MaxUuid(messages), u) + 1, GraphUuids) :
       \E t \in {"user", "progress"} :
          messages' = Append(messages, Loaded(Msg(u, p, t, FALSE), Len(messages)))
    /\ UNCHANGED <<pc, boundary_uuid, current, chain, visited, tail, queue, iters>>
    /\ GraphFrame

GraphInit ==
    /\ messages = <<>>
    /\ pc = "idle"
    /\ boundary_uuid = None
    /\ current = 0
    /\ chain = <<>>
    /\ visited = {}
    /\ tail = {}
    /\ queue = <<>>
    /\ iters = 0
    /\ disk = <<>>
    /\ backup_file = <<>>
    /\ tail_uuids = {}
    /\ new_messages = <<>>
    /\ stats = NoStats
    /\ count = 0
    /\ outcome = NoOutcome
    /\ strategy = "none"
    /\ passes = <<>>
    /\ tmp = [exists |-> FALSE, lines |-> <<>>]
    /\ previous = <<>>
    /\ log = <<>>
    /\ opts = [entry |-> "none", strip |-> FALSE, backup |-> FALSE, dry_run |-> FALSE,
               topic |-> FALSE]
    /\ response = <<>>
    /\ platform = "linux"
    /\ keychain = [s \in 1..3 |-> NoStore]
    /\ cred_file = NoStore
    /\ calls = <<>>
    /\ loaded = NoCreds
    /\ before = [keychain |-> NoStore, cred_file |-> NoStore]
    /\ exchanges = <<>>

GraphNext ==
    \/ GraphLoad
    \/ WalkStart
    \/ WalkStep
    \/ WalkReverse
    \/ TailStart
    \/ TailStep
    \/ TailReturn

GraphSpec == GraphInit /\ [][GraphNext]_vars

----------------------------------------------------------------------------
(* Properties of the graph walks *)

\* the uuids reachable from the set S by parent-to-child edges: the least
\* set that holds S and the uuid of every record whose parentUuid it holds
RECURSIVE Descendants(_, _)
Descendants(msgs, S) ==
    LET more == {msgs[i].uuid : i \in {j \in 1..Len(msgs) :
                     msgs[j].uuid # None /\ msgs[j].parentUuid \in S}}
    IN  IF more \subseteq S THEN S ELSE Descendants(msgs, S \cup more)

\* the parentUuids of the records that carry one of the uuids of S
ParentsOf(msgs, S) ==
    {msgs[i].parentUuid : i \in {j \in 1..Len(msgs) : msgs[j].uuid \in S}} \ {None}

RECURSIVE UpClosure(_, _)
UpClosure(msgs, S) ==
    IF ParentsOf(msgs, S) \subseteq S THEN S
    ELSE UpClosure(msgs, S \cup ParentsOf(msgs, S))

\* the uuids from which b is reached by one or more parent-to-child edges
Ancestors(msgs, b) == UpClosure(msgs, ParentsOf(msgs, {b}))

ChainUuids == [i \in 1..Len(chain) |-> messages[chain[i]].uuid]

NoRepeat(s) == \A i, j \in 1..Len(s) : i # j => s[i] # s[j]

\* C1 as stated: for every record list and every boundary that is the uuid
\* of a record, collect_tail_uuids returns exactly the boundary and the
\* uuids reachable from it by parent-to-child edges, and the result holds
\* no ancestor of the boundary.
C1_AsStated ==
    pc = "tail_done" =>
        /\ tail = Descendants(messages, {boundary_uuid})
        /\ tail \cap Ancestors(messages, boundary_uuid) = {}

\* C1 amended: collect_tail_uuids returns exactly the boundary and the
\* uuids reachable from it by parent-to-child edges (so no uuid of a
\* subtree that does not descend from the boundary); the result holds no
\* ancestor of the boundary whenever the boundary is not on a parentUuid
\* cycle, that is, is not its own ancestor.
C1_TailIsDescendants ==
    pc = "tail_done" =>
        /\ tail = Descendants(messages, {boundary_uuid})
        /\ boundary_uuid \notin Ancestors(messages, boundary_uuid)
              => tail \cap Ancestors(messages, boundary_uuid) = {}

\* a finished collection on a tree: the boundary has an ancestor, and that
\* ancestor has another child, which stays out of the tail
C1_Witness ==
    /\ pc = "tail_done"
    /\ boundary_uuid \notin Ancestors(messages, boundary_uuid)
    /\ \E i, j \in 1..Len(messages) :
          /\ messages[i].uuid = boundary_uuid
          /\ messages[i].parentUuid # None
          /\ messages[j].parentUuid = messages[i].parentUuid
          /\ messages[j].uuid \notin {None, boundary_uuid, messages[i].parentUuid}
          /\ messages[j].uuid \notin tail
          /\ messages[i].parentUuid \notin tail

\* C4: when walk_main_chain returns, no uuid occurs twice in the chain, its
\* last element is the record find_last_main_chain_message chose (the
\* chain is empty when there is none), and every element after the first
\* has as parentUuid the uuid of the element before it.
C4_ChainLinked ==
    pc = "walk_done" =>
        /\ NoRepeat(ChainUuids)
        /\ find_last_main_chain_message(messages) = 0 => chain = <<>>
        /\ find_last_main_chain_message(messages) # 0 =>
              /\ chain # <<>>
              /\ chain[Len(chain)] = find_last_main_chain_message(messages)
        /\ \A i \in 2..Len(chain) :
              messages[chain[i]].parentUuid = messages[chain[i - 1]].uuid

\* the walk has returned on the cycle A.parent = B, B.parent = A
C4_Witness ==
    /\ pc = "walk_done"
    /\ Len(chain) = 2
    /\ messages[chain[1]].parentUuid = messages[chain[2]].uuid
    /\ messages[chain[2]].parentUuid = messages[chain[1]].uuid

\* how often the records of msgs name a uuid of S as their parent
RECURSIVE EdgesFrom(_, _)
EdgesFrom(msgs, S) ==
    IF S = {} THEN 0
    ELSE LET u == CHOOSE x \in S : TRUE
         IN  Len(ChildrenMapGet(msgs, u)) + EdgesFrom(msgs, S \ {u})

\* C5: both loops end on every record list, cycles and self-loops
\* included, because a uuid is processed once only.  walk_main_chain: every
\* loop body but the last adds a uuid that was not visited, so the chain
\* never repeats a uuid and the loop runs at most once per record, plus the
\* pass that meets the revisit.  collect_tail_uuids: the uuids popped and
\* those still queued are the boundary and the children of each uuid of
\* the tail, taken once, so the loop runs at most once per record, plus
\* once for the boundary.
C5_LoopsBounded ==
    /\ pc \in {"walk_loop", "walk_reverse", "walk_done"} =>
          /\ NoRepeat(ChainUuids)
          /\ visited = Range(ChainUuids)
          /\ iters <= Len(chain) + 1
          /\ iters <= Len(messages) + 1
    /\ pc \in {"tail_loop", "tail_done"} =>
          /\ iters + Len(queue) = 1 + EdgesFrom(messages, tail)
          /\ iters <= Len(messages) + 1
    /\ pc = "tail_done" => queue = <<>>

\* the collection has returned on a parentUuid cycle through the boundary:
\* it popped a uuid that was in the tail already and went on
C5_Witness ==
    /\ pc = "tail_done"
    /\ iters > Cardinality(tail)
    /\ Cardinality(tail) >= 2
    /\ boundary_uuid \in Ancestors(messages, boundary_uuid)

----------------------------------------------------------------------------
(* session.py: the walks as functions of the record list *)

RECURSIVE WalkLoop(_, _, _, _)
WalkLoop(msgs, cur, ch, seen) ==
    LET r == WalkBody(msgs, cur, ch, seen)
    IN  IF r.stop THEN r.chain ELSE WalkLoop(msgs, r.current, r.chain, r.visited)

\* walk_main_chain(messages): the indices of the chain, root first
walk_main_chain(msgs) ==
    IF find_last_main_chain_message(msgs) = 0 THEN <<>>
    ELSE Reverse(WalkLoop(msgs, find_last_main_chain_message(msgs), <<>>, {}))

RECURSIVE TailLoop(_, _, _)
TailLoop(msgs, t, q) ==
    IF q = <<>> THEN t
    ELSE LET r == TailBody(msgs, t, q) IN TailLoop(msgs, r.tail, r.queue)

\* mutant: the queue starts empty
collect_tail_uuids_of_nothing(msgs, b) == TailLoop(msgs, {}, <<>>)

\* collect_tail_uuids(messages, boundary_uuid)
collect_tail_uuids(msgs, b) == TailLoop(msgs, {}, <<b>>)

----------------------------------------------------------------------------
(* compactor.py: compact *)

\* number of distinct uuids in the session files given to compact
CompactUuids == 2
\* longest session file given to compact
CompactMsgs == 2

STRUCTURAL_TYPES == {"file-history-snapshot", "queue-operation", "summary"}

\* a line that carries a messageId
MsgId(u, p, t, mid) == [Msg(u, p, t, FALSE) EXCEPT !.messageId = mid]

\* str(uuid.uuid4()): a uuid no record of the file mentions
FreshUuid(msgs) == MaxUuid(msgs) + 1

\* build_summary_message: the new root.  Of its fields the model keeps the
\* ones the record lists are filtered and linked by.
build_summary_message(msgs) == Msg(FreshUuid(msgs), None, "summary", FALSE)

\* mutant: the boundary record keeps its parent
ReparentSkipped(msgs, b, sid) == msgs

\* `for msg in messages: if msg.get("uuid") == boundary_uuid:
\*      msg["parentUuid"] = summary_msg["uuid"]; break`
Reparent(msgs, b, sid) ==
    LET hits == {i \in 1..Len(msgs) : msgs[i].uuid = b}
    IN  IF hits = {} THEN msgs
        ELSE [msgs EXCEPT ![CHOOSE i \in hits : \A j \in hits : i <= j].parentUuid = sid]

\* mutant: the branch for snapshots that point into the tail is missing
KeepsWithoutSnapshots(msg, t) ==
    \/ msg.uuid # None /\ msg.uuid \in t
    \/ msg.type \in STRUCTURAL_TYPES /\ msg.uuid = None

\* mutant: a structural record is kept whether or not it has a uuid
KeepsAnyStructural(msg, t) ==
    \/ msg.uuid # None /\ msg.uuid \in t
    \/ msg.type \in STRUCTURAL_TYPES
    \/ msg.type = "file-history-snapshot" /\ msg.messageId \in t

\* the three branches that append msg to new_messages
Keeps(msg, t) ==
    \/ msg.uuid # None /\ msg.uuid \in t
    \/ msg.type \in STRUCTURAL_TYPES /\ msg.uuid = None
    \/ msg.type = "file-history-snapshot" /\ msg.messageId \in t

RECURSIVE Filter(_, _)
Filter(msgs, t) ==
    IF msgs = <<>> THEN <<>>
    ELSE IF Keeps(Head(msgs), t) THEN <<Head(msgs)>> \o Filter(Tail(msgs), t)
         ELSE Filter(Tail(msgs), t)

\* new_messages = [summary_msg] + the records kept, in file order
Splice(msgs, b, t) ==
    <<build_summary_message(msgs)>>
        \o Filter(Reparent(msgs, b, build_summary_message(msgs).uuid), t)

\* mutant: the summary record is left out of the count
StatsWithoutSummary(original_count, new) ==
    [original_messages |-> original_count,
     final_messages |-> Len(new) - 1,
     removed_messages |-> original_count - Len(new) + 1]

\* mutant: removed_messages without the +1 for the added summary
StatsRemovedPlain(original_count, new) ==
    [original_messages |-> original_count,
     final_messages |-> Len(new),
     removed_messages |-> original_count - Len(new)]

\* the counts of the dict compact returns (the byte sizes are those of
\* the file system and are not modelled)
Stats(original_count, new) ==
    [original_messages |-> original_count,
     final_messages |-> Len(new),
     removed_messages |-> original_count - Len(new) + 1]

\* the sub-lists of a file: what an external strip pass may leave of it
SubLists(lines) ==
    {[i \in 1..Cardinality(keep) |->
         lines[CHOOSE k \in keep : Cardinality({j \in keep : j < k}) = i - 1]]
     : keep \in SUBSET (1..Len(lines))}

\* compact(session_path, boundary_uuid, summary_text, strip=, backup=),
\* from the copy to the return.  run_strip hands the file to cozempic,
\* which is not part of this program: it may remove any of the lines.
Compact(b, strip, backup) ==
    /\ pc = "idle"
    /\ boundary_uuid' = b
    /\ backup_file' = IF backup THEN <<disk>> ELSE backup_file
    /\ \E stripped \in (IF strip THEN SubLists(disk) ELSE {disk}) :
       \E msgs \in {load_messages(stripped)} :
       \E t \in {collect_tail_uuids(msgs, b)} :
       \E new \in {Splice(msgs, b, t)} :
          /\ messages' = msgs
          /\ IF b \notin RecordUuids(msgs)
             THEN /\ pc' = "BoundaryNotFound"
                  /\ disk' = stripped
                  /\ UNCHANGED <<tail_uuids, new_messages, stats>>
             ELSE IF t = {}
             THEN /\ pc' = "EmptyTail"
                  /\ disk' = stripped
                  /\ tail_uuids' = t
                  /\ UNCHANGED <<new_messages, stats>>
             ELSE /\ pc' = "compacted"
                  /\ tail_uuids' = t
                  /\ new_messages' = new
                  /\ disk' = save_messages(new)
                  /\ stats' = Stats(Len(msgs), new)
    /\ CompactFrame

\* the session file grows by one line before compact is run: a message, a
\* file-history-snapshot or a summary sidecar.  A line that brings a new
\* uuid brings the next unused one.
SessionAppend ==
    /\ pc = "idle"
    /\ Len(disk) < CompactMsgs
    /\ \E u \in 0..Min(MaxUuid(load_messages(disk)) + 1, CompactUuids) :
       \E x \in 0..Min(Max(MaxUuid(load_messages(disk)), u) + 1, CompactUuids) :
       \E line \in {Msg(u, x, "user", FALSE),
                    MsgId(u, None, "file-history-snapshot", x),
                    Msg(u, None, "summary", FALSE)} :
          disk' = Append(disk, dumps(line))
    /\ UNCHANGED <<messages, pc, boundary_uuid, backup_file, tail_uuids,
                   new_messages, stats>>
    /\ CompactFrame

CompactInit == GraphInit

CompactNext ==
    \/ SessionAppend
    \/ \E b \in 1..CompactUuids, strip \in BOOLEAN, backup \in BOOLEAN :
          Compact(b, strip, backup)

CompactSpec == CompactInit /\ [][CompactNext]_vars

----------------------------------------------------------------------------
(* Properties of compact *)

\* no two records of the list carry the same uuid
UniqueUuids(msgs) ==
    \A i, j \in 1..Len(msgs) :
        i # j /\ msgs[i].uuid # None => msgs[i].uuid # msgs[j].uuid

\* the records after the summary that were kept as structural records, not
\* for a uuid of the tail
RetainedStructural ==
    Cardinality({i \in 2..Len(new_messages) :
                    /\ new_messages[i].type \in STRUCTURAL_TYPES
                    /\ new_messages[i].uuid \notin tail_uuids})

\* C2 as stated: whenever compact succeeds, final_messages is 1 plus the
\* size of the tail uuid set plus the number of retained structural
\* records, for every input record list.
C2_AsStated ==
    pc = "compacted" =>
        stats.final_messages = 1 + Cardinality(tail_uuids) + RetainedStructural

\* C2 amended: whenever compact succeeds on a record list in which no two
\* records carry the same uuid, final_messages is 1 plus the size of the
\* tail uuid set plus the number of retained structural records.
C2_FinalCount ==
    pc = "compacted" /\ UniqueUuids(messages) =>
        stats.final_messages = 1 + Cardinality(tail_uuids) + RetainedStructural

\* compact succeeded on a list of distinct uuids and kept a tail record
\* and a structural sidecar
C2_Witness ==
    /\ pc = "compacted"
    /\ UniqueUuids(messages)
    /\ RetainedStructural >= 1
    /\ stats.final_messages = 3

\* C3 as stated: in the file compact writes, every record that carries a
\* uuid is the new summary record or has its uuid in the tail set.
C3_AsStated ==
    pc = "compacted" =>
        /\ loads(disk[1]) = build_summary_message(messages)
        /\ \A i \in 2..Len(disk) :
              loads(disk[i]).uuid # None => loads(disk[i]).uuid \in tail_uuids

\* C3 amended: in the file compact writes, every record that carries a
\* uuid is the new summary record, or has its uuid in the tail set, or is
\* a file-history-snapshot whose messageId is in the tail set.
C3_WrittenUuids ==
    pc = "compacted" =>
        /\ loads(disk[1]) = build_summary_message(messages)
        /\ loads(disk[1]).uuid \notin tail_uuids
        /\ \A i \in 2..Len(disk) :
              loads(disk[i]).uuid # None =>
                 \/ loads(disk[i]).uuid \in tail_uuids
                 \/ /\ loads(disk[i]).type = "file-history-snapshot"
                    /\ loads(disk[i]).messageId \in tail_uuids

\* compact wrote a file-history-snapshot whose own uuid is outside the tail
C3_Witness ==
    /\ pc = "compacted"
    /\ \E i \in 2..Len(disk) :
          /\ loads(disk[i]).uuid \notin tail_uuids \cup {None}
          /\ loads(disk[i]).messageId \in tail_uuids

----------------------------------------------------------------------------
(* session.py: extract_exchanges *)

\* A string is a sequence of characters; " " stands for any whitespace
\* character, the "\n" of a join included.

StrContent(txt) == [kind |-> "str", text |-> txt, blocks |-> <<>>]

ListContent(bs) == [kind |-> "list", text |-> <<>>, blocks |-> bs]

\* a content block (a dict): its type and its text
Block(t, txt) == [type |-> t, text |-> txt]

\* a user or assistant line: message.role and message.content
Turn(u, p, t, c) == [Msg(u, p, t, FALSE) EXCEPT !.role = t, !.content = c]

RECURSIVE LStrip(_)
LStrip(str) ==
    IF str # <<>> /\ Head(str) = " " THEN LStrip(Tail(str)) ELSE str

\* str.strip()
Strip(str) == Reverse(LStrip(Reverse(LStrip(str))))

\* "\n".join(parts)
RECURSIVE Join(_)
Join(parts) ==
    IF parts = <<>> THEN <<>>
    ELSE IF Len(parts) = 1 THEN Head(parts)
    ELSE Head(parts) \o <<" ">> \o Join(Tail(parts))

\* `if not content`: None, "" and [] are falsy
Falsy(c) ==
    \/ c.kind = "none"
    \/ c.kind = "str" /\ c.text = <<>>
    \/ c.kind = "list" /\ c.blocks = <<>>

RECURSIVE TextParts(_)
TextParts(bs) ==
    IF bs = <<>> THEN <<>>
    ELSE IF Head(bs).type = "text" THEN <<Head(bs).text>> \o TextParts(Tail(bs))
    ELSE TextParts(Tail(bs))

\* mutant: the check for tool_result blocks is missing
ExchangeTextOfToolResults(msg) ==
    IF msg.type \notin {"user", "assistant"} \/ Falsy(msg.content) THEN <<>>
    ELSE IF msg.content.kind = "str" THEN Strip(msg.content.text)
    ELSE Strip(Join(TextParts(msg.content.blocks)))

\* the text extract_exchanges takes from one record, <<>> when it skips it
ExchangeText(msg) ==
    IF msg.type \notin {"user", "assistant"} \/ Falsy(msg.content) THEN <<>>
    ELSE IF msg.content.kind = "str" THEN Strip(msg.content.text)
    ELSE IF \E i \in 1..Len(msg.content.blocks) :
                msg.content.blocks[i].type = "tool_result" THEN <<>>
    ELSE Strip(Join(TextParts(msg.content.blocks)))

RECURSIVE ExchangesOf(_, _)
ExchangesOf(msgs, ch) ==
    IF ch = <<>> THEN <<>>
    ELSE LET msg == msgs[Head(ch)]
         IN  (IF ExchangeText(msg) = <<>> THEN <<>>
              ELSE <<[uuid |-> msg.uuid, role |-> msg.role, text |-> ExchangeText(msg),
                      line_index |-> msg.line_index]>>)
             \o ExchangesOf(msgs, Tail(ch))

\* extract_exchanges(messages)
extract_exchanges(msgs) == ExchangesOf(msgs, walk_main_chain(msgs))

----------------------------------------------------------------------------
(* compactor.py: find_boundary_by_count *)

\* longest session given to the boundary resolver
BoundaryMsgs == 3

\* lst[k] of Python, k negative counting from the end
PyIndex(lst, k) == IF k < 0 THEN lst[Len(lst) + k + 1] ELSE lst[k + 1]

SelectRole(exs, r) == SelectSeq(exs, LAMBDA ex : ex.role = r)

\* mutant: `count > len(user_exchanges)`
NothingToCompactStrict(n, user_exchanges) == n > Len(user_exchanges)

\* `if count >= len(user_exchanges)`
NothingToCompact(n, user_exchanges) == n >= Len(user_exchanges)

\* the uuid returned, or the ValueError raised: "InsufficientHistory" is
\* the "... Nothing to compact." message, "InvalidArgument" the
\* "--last must be a positive integer." one
find_boundary_by_count(msgs, n) ==
    LET user_exchanges == SelectRole(extract_exchanges(msgs), "user")
    IN  IF NothingToCompact(n, user_exchanges)
        THEN [status |-> "InsufficientHistory", uuid |-> None]
        ELSE IF n <= 0
        THEN [status |-> "InvalidArgument", uuid |-> None]
        ELSE [status |-> "ok", uuid |-> PyIndex(user_exchanges, -n).uuid]

\* load_messages appends the next line of a session as the client writes
\* it: a user or assistant turn with a new uuid, hanging under any earlier
\* turn or under none.  Its content is a prompt, a blank string, or a
\* block list with a text and a tool_result.
BoundaryLoad ==
    /\ pc = "idle"
    /\ Len(messages) < BoundaryMsgs
    /\ \E p \in 0..Len(messages) :
       \E t \in {"user", "assistant"} :
       \E c \in {StrContent(<<" ", "a", " ">>), StrContent(<<" ">>),
                 ListContent(<<Block("text", <<"a">>), Block("tool_result", <<>>)>>)} :
          messages' = Append(messages,
                             Loaded(Turn(Len(messages) + 1, p, t, c), Len(messages)))
    /\ UNCHANGED <<pc, count, outcome>>
    /\ BoundaryFrame

FindBoundaryByCount(n) ==
    /\ pc = "idle"
    /\ count' = n
    /\ outcome' = find_boundary_by_count(messages, n)
    /\ pc' = "resolved"
    /\ UNCHANGED messages
    /\ BoundaryFrame

BoundaryNext ==
    \/ BoundaryLoad
    \/ \E n \in (-1)..(BoundaryMsgs + 1) : FindBoundaryByCount(n)

BoundarySpec == GraphInit /\ [][BoundaryNext]_vars

----------------------------------------------------------------------------
(* Properties of find_boundary_by_count *)

UserExchanges == SelectRole(extract_exchanges(messages), "user")

\* the uuids of the main-chain records, root first, that are user turns
\* with text left after trimming and no tool_result block
RECURSIVE UserTurns(_, _)
UserTurns(msgs, ch) ==
    IF ch = <<>> THEN <<>>
    ELSE LET m == msgs[Head(ch)]
             text == IF m.content.kind = "str" THEN m.content.text
                     ELSE Join(TextParts(m.content.blocks))
             tool == /\ m.content.kind = "list"
                     /\ \E i \in 1..Len(m.content.blocks) :
                           m.content.blocks[i].type = "tool_result"
         IN  (IF /\ m.type \in {"user", "assistant"}
                 /\ m.role = "user"
                 /\ ~tool
                 /\ \E i \in 1..Len(text) : text[i] # " "
              THEN <<m.uuid>> ELSE <<>>)
             \o UserTurns(msgs, Tail(ch))

\* C9: find_boundary_by_count fails with InvalidArgument ("--last must be
\* a positive integer") for every n <= 0, whatever the number of user
\* exchanges, zero included.
C9_AsStated ==
    pc = "resolved" /\ count <= 0 => outcome.status = "InvalidArgument"

\* C10: for n >= 1 and U user exchanges on the main chain,
\* find_boundary_by_count fails with InsufficientHistory when n >= U and
\* otherwise returns the uuid of the user exchange at chronological index
\* U - n (counting from 0).
C10_CountFromEnd ==
    pc = "resolved" /\ count >= 1 =>
        LET turns == UserTurns(messages, walk_main_chain(messages))
            U == Len(turns)
        IN  IF count >= U
            THEN outcome = [status |-> "InsufficientHistory", uuid |-> None]
            ELSE outcome = [status |-> "ok", uuid |-> turns[U - count + 1]]

\* n = 1 on a session of three user turns returned the last of them
C10_Witness ==
    /\ pc = "resolved"
    /\ count = 1
    /\ Len(UserExchanges) = 3
    /\ outcome = [status |-> "ok", uuid |-> UserExchanges[3].uuid]

----------------------------------------------------------------------------
(* strip.py: serialized sizes *)

\* The strings of the model are ASCII with nothing json.dumps escapes but
\* the newline, so a character is one byte and a "\n" two bytes of JSON.

TOOL_OUTPUT_MAX_BYTES == 8192
\* mutant: the line threshold set to half of its value
TOOL_OUTPUT_MAX_LINES_HALVED == 100 \div 2
TOOL_OUTPUT_MAX_LINES == 100

STRIP_INNER == {"usage", "stop_reason", "stop_sequence"}
STRIP_OUTER == {"costUSD", "duration", "apiDuration"}

\* len(str(n)) for n >= 0
RECURSIVE Digits(_)
Digits(n) == IF n < 10 THEN 1 ELSE 1 + Digits(n \div 10)

\* sum(ns), by halves
RECURSIVE Sum(_)
Sum(ns) ==
    IF ns = <<>> THEN 0
    ELSE IF Len(ns) = 1 THEN ns[1]
    ELSE LET mid == Len(ns) \div 2
         IN  Sum(SubSeq(ns, 1, mid)) + Sum(SubSeq(ns, mid + 1, Len(ns)))

\* bytes of `"k":value` for a value of v bytes
KeyVal(k, v) == Len(k) + 3 + v

\* bytes of a dict whose items take the given numbers of bytes, 0 for a
\* key it does not have: braces, items, one comma between two items
Obj(items) ==
    LET n == Cardinality({i \in 1..Len(items) : items[i] > 0})
    IN  2 + Sum(items) + (IF n > 1 THEN n - 1 ELSE 0)

\* A string with newlines is the sequence of its lines (str.split("\n")).
\* A line is hi - lo characters: of filler when k = "x", else the
\* characters lo..hi-1 of the marker "... [n lines trimmed] ..." (k =
\* "lines") or "... [n bytes trimmed] ..." (k = "bytes").
XLine(len) == [k |-> "x", n |-> 0, lo |-> 0, hi |-> len]

MarkerLen(n) == Len("... [") + Digits(n) + Len(" lines trimmed] ...")

Marker(k, n) == [k |-> k, n |-> n, lo |-> 0, hi |-> MarkerLen(n)]

LineLen(l) == l.hi - l.lo

\* line[:c] and line[-c:] for 0 <= c <= len(line)
FirstChars(l, c) ==
    IF c = 0 \/ l.k = "x" THEN XLine(c) ELSE [l EXCEPT !.hi = l.lo + c]

LastChars(l, c) ==
    IF c = 0 \/ l.k = "x" THEN XLine(c) ELSE [l EXCEPT !.lo = l.hi - c]

\* len(content): the lines and the newlines between them
Chars(lines) == Sum([i \in 1..Len(lines) |-> LineLen(lines[i])]) + Len(lines) - 1

\* len(json.dumps(content)) of a string: quotes, and "\n" escaped
JsonStr(lines) == Chars(lines) + (Len(lines) - 1) + 2

\* content[:c], c >= 0: the lines before the one the cut falls in, and
\* the characters of that line before the cut
Prefix(lines, c) ==
    LET upto(j) == Chars(SubSeq(lines, 1, j))
        cut == {j \in 1..Len(lines) : c <= upto(j)}
    IN  IF cut = {} THEN lines
        ELSE LET j == CHOOSE j \in cut : \A k \in cut : j <= k
             IN  SubSeq(lines, 1, j - 1)
                 \o <<FirstChars(lines[j], c - (upto(j) - LineLen(lines[j])))>>

\* content[-c:], c > 0
Suffix(lines, c) ==
    LET from(j) == Chars(SubSeq(lines, j, Len(lines)))
        cut == {j \in 1..Len(lines) : c <= from(j)}
    IN  IF cut = {} THEN lines
        ELSE LET j == CHOOSE j \in cut : \A k \in cut : k <= j
             IN  <<LastChars(lines[j], c - (from(j) - LineLen(lines[j])))>>
                 \o SubSeq(lines, j + 1, Len(lines))

\* a tool_result content: a string, or a list of parts the code leaves alone
StrOutput(lines) == [str |-> TRUE, lines |-> lines]
ListOutput == [str |-> FALSE, lines |-> <<>>]

\* bytes of one item of a content block
BlockItem(b, k) ==
    IF k \notin DOMAIN b THEN 0
    ELSE IF k = "type" THEN KeyVal(k, Len(b.type) + 2)
    ELSE IF k = "content"
         THEN KeyVal(k, IF b.content.str THEN JsonStr(b.content.lines) ELSE 2)
    ELSE KeyVal(k, Len(b[k]) + 2)

BlockKeys == <<"type", "text", "thinking", "signature", "content">>

BlockBytes(b) == Obj([i \in 1..Len(BlockKeys) |-> BlockItem(b, BlockKeys[i])])

\* bytes of message.content: absent, a string, or a list of blocks
ContentBytes(c) ==
    IF c.kind = "none" THEN 0
    ELSE IF c.kind = "str" THEN Len(c.text) + 2
    ELSE 2 + Sum([i \in 1..Len(c.blocks) |-> BlockBytes(c.blocks[i])])
           + (IF Len(c.blocks) > 1 THEN Len(c.blocks) - 1 ELSE 0)

\* bytes of an item of msg["message"]; a metadata field holds the number
\* of bytes of its value
InnerItem(msg, k) ==
    IF k \notin DOMAIN msg THEN 0
    ELSE IF k = "role" THEN (IF msg.role = "" THEN 0 ELSE KeyVal(k, Len(msg.role) + 2))
    ELSE IF k = "content"
         THEN (IF msg.content.kind = "none" THEN 0
               ELSE KeyVal(k, ContentBytes(msg.content)))
    ELSE KeyVal(k, msg[k])

InnerKeys == <<"role", "content", "usage", "stop_reason", "stop_sequence">>

\* bytes of an item of the record; a uuid is a string of 36 characters
OuterItem(msg, k) ==
    IF k \notin DOMAIN msg THEN 0
    ELSE IF k = "type" THEN KeyVal(k, Len(msg.type) + 2)
    ELSE IF k \in {"uuid", "parentUuid", "messageId"}
         THEN (IF msg[k] = None THEN 0 ELSE KeyVal(k, 38))
    ELSE IF k = "isSidechain" THEN (IF msg[k] THEN KeyVal(k, 4) ELSE 0)
    ELSE IF k = "line_index" THEN KeyVal("_line_index", Digits(msg[k]))
    ELSE KeyVal(k, msg[k])

OuterKeys == <<"type", "uuid", "parentUuid", "isSidechain", "messageId",
               "line_index", "costUSD", "duration", "apiDuration">>

\* _msg_bytes(msg): len(json.dumps(msg, separators=(",", ":")))
msg_bytes(msg) ==
    LET inner == [i \in 1..Len(InnerKeys) |-> InnerItem(msg, InnerKeys[i])]
        outer == [i \in 1..Len(OuterKeys) |-> OuterItem(msg, OuterKeys[i])]
    IN  Obj(outer \o <<IF Sum(inner) > 0 THEN KeyVal("message", Obj(inner)) ELSE 0>>)

----------------------------------------------------------------------------
(* strip.py: the four strategies *)

\* longest record list given to a strategy
StripMsgs == 2

\* _get_content_blocks(msg)
get_content_blocks(msg) ==
    IF msg.content.kind = "list" THEN msg.content.blocks ELSE <<>>

\* _set_content_blocks(msg, blocks), on a record that has a "message"
set_content_blocks(msg, blocks) ==
    [msg EXCEPT !.content = [kind |-> "list", text |-> <<>>, blocks |-> blocks]]

\* mutant: the changed record replaces the original whatever its size
SizeGuardOff(msg, new_msg) ==
    [msg |-> new_msg, saved |-> msg_bytes(msg) - msg_bytes(new_msg)]

\* `if new_size < orig_size: saved += orig_size - new_size;
\* result.append(new_msg) else: result.append(msg)`
SizeGuard(msg, new_msg) ==
    IF msg_bytes(new_msg) < msg_bytes(msg)
    THEN [msg |-> new_msg, saved |-> msg_bytes(msg) - msg_bytes(new_msg)]
    ELSE [msg |-> msg, saved |-> 0]

\* `while i + 1 < len(messages) and messages[i + 1].get("type") ==
\* "progress": i += 1`: the index the inner loop stops at
RECURSIVE RunEnd(_, _)
RunEnd(msgs, i) ==
    IF i + 1 <= Len(msgs) /\ msgs[i + 1].type = "progress"
    THEN RunEnd(msgs, i + 1) ELSE i

\* mutant: the first record of the run is the one appended
RunKeptFirst(run_start, i) == run_start

\* `result.append(messages[i])` after the inner loop: the index of the
\* record of the run that is kept
RunKept(run_start, i) == i

\* the outer loop of _collapse_progress from index i on, with the result
\* and the bytes saved so far
RECURSIVE CollapseLoop(_, _, _, _)
CollapseLoop(msgs, i, result, saved) ==
    IF i > Len(msgs) THEN [messages |-> result, saved |-> saved]
    ELSE IF msgs[i].type = "progress"
    THEN LET end == RunEnd(msgs, i)
         IN  CollapseLoop(msgs, end + 1,
                          Append(result, msgs[RunKept(i, end)]),
                          saved + Sum([j \in 1..(end - i) |-> msg_bytes(msgs[i + j - 1])]))
    ELSE CollapseLoop(msgs, i + 1, Append(result, msgs[i]), saved)

\* _collapse_progress(messages): of a run of consecutive progress records
\* the last is kept and the bytes of the others are counted as saved
collapse_progress(msgs) == CollapseLoop(msgs, 1, <<>>, 0)

\* the block loop of _strip_thinking: thinking blocks dropped, the
\* "signature" key taken off the others
RECURSIVE ThinkingStripped(_)
ThinkingStripped(blocks) ==
    IF blocks = <<>> THEN <<>>
    ELSE LET block == Head(blocks)
         IN  (IF block.type = "thinking" THEN <<>>
              ELSE <<[k \in DOMAIN block \ {"signature"} |-> block[k]]>>)
             \o ThinkingStripped(Tail(blocks))

\* one round of the record loop of _strip_thinking
StripThinkingOf(msg) ==
    LET blocks == get_content_blocks(msg)
        changed == \E i \in 1..Len(blocks) :
                      \/ blocks[i].type = "thinking"
                      \/ "signature" \in DOMAIN blocks[i]
    IN  IF msg.type # "assistant" \/ blocks = <<>> \/ ~changed
        THEN [msg |-> msg, saved |-> 0]
        ELSE SizeGuard(msg, set_content_blocks(msg, ThinkingStripped(blocks)))

\* _strip_thinking(messages)
strip_thinking(msgs) ==
    LET r == [i \in 1..Len(msgs) |-> StripThinkingOf(msgs[i])]
    IN  [messages |-> [i \in 1..Len(msgs) |-> r[i].msg],
         saved |-> Sum([i \in 1..Len(msgs) |-> r[i].saved])]

\* mutant: one field deleted per record, as with a `break` after the
\* first deletion
MetadataFieldsFirstOnly(msg) ==
    LET present == (STRIP_INNER \cup STRIP_OUTER) \cap DOMAIN msg
    IN  IF present = {} THEN {} ELSE {CHOOSE k \in present : TRUE}

\* the fields the two `for field in ...` loops of _strip_metadata delete
MetadataFields(msg) == (STRIP_INNER \cup STRIP_OUTER) \cap DOMAIN msg

\* one round of the record loop of _strip_metadata
StripMetadataOf(msg) ==
    IF MetadataFields(msg) = {} THEN [msg |-> msg, saved |-> 0]
    ELSE SizeGuard(msg, [k \in DOMAIN msg \ MetadataFields(msg) |-> msg[k]])

\* _strip_metadata(messages)
strip_metadata(msgs) ==
    LET r == [i \in 1..Len(msgs) |-> StripMetadataOf(msgs[i])]
    IN  [messages |-> [i \in 1..Len(msgs) |-> r[i].msg],
         saved |-> Sum([i \in 1..Len(msgs) |-> r[i].saved])]

\* len(content.encode("utf-8")) and content.count("\n") + 1
content_bytes(lines) == Chars(lines)
content_lines(lines) == Len(lines)

\* the line-based trim: the first and last `keep` lines around the marker
\* element, which "\n".join turns into an empty line, the marker line and
\* an empty line
LineTrimmed(lines) ==
    LET keep == TOOL_OUTPUT_MAX_LINES \div 2
    IN  SubSeq(lines, 1, keep)
        \o <<XLine(0), Marker("lines", Len(lines) - TOOL_OUTPUT_MAX_LINES), XLine(0)>>
        \o SubSeq(lines, Len(lines) - keep + 1, Len(lines))

\* the byte-based trim: content[:half] + "\n... [K bytes trimmed] ...\n"
\* + content[-half:]
ByteTrimmed(lines) ==
    LET half == TOOL_OUTPUT_MAX_BYTES \div 2
    IN  Prefix(lines, half)
        \o <<Marker("bytes", content_bytes(lines) - TOOL_OUTPUT_MAX_BYTES)>>
        \o Suffix(lines, half)

\* `if content_bytes <= TOOL_OUTPUT_MAX_BYTES and content_lines <=
\* TOOL_OUTPUT_MAX_LINES: ... continue`, on a string content
Oversized(lines) ==
    \/ content_bytes(lines) > TOOL_OUTPUT_MAX_BYTES
    \/ content_lines(lines) > TOOL_OUTPUT_MAX_LINES

\* does the block loop of _trim_tool_output rewrite this block
Trimmable(block) ==
    /\ block.type = "tool_result"
    /\ "content" \in DOMAIN block
    /\ block.content.str
    /\ Oversized(block.content.lines)

\* `{**block, "content": new_content}`
TrimBlock(block) ==
    IF ~Trimmable(block) THEN block
    ELSE [block EXCEPT !.content =
             StrOutput(IF Len(block.content.lines) > TOOL_OUTPUT_MAX_LINES
                       THEN LineTrimmed(block.content.lines)
                       ELSE ByteTrimmed(block.content.lines))]

\* one round of the record loop of _trim_tool_output
TrimToolOutputOf(msg) ==
    LET blocks == get_content_blocks(msg)
    IN  IF \A i \in 1..Len(blocks) : ~Trimmable(blocks[i])
        THEN [msg |-> msg, saved |-> 0]
        ELSE SizeGuard(msg, set_content_blocks(msg,
                 [i \in 1..Len(blocks) |-> TrimBlock(blocks[i])]))

\* _trim_tool_output(messages)
trim_tool_output(msgs) ==
    LET r == [i \in 1..Len(msgs) |-> TrimToolOutputOf(msgs[i])]
    IN  [messages |-> [i \in 1..Len(msgs) |-> r[i].msg],
         saved |-> Sum([i \in 1..Len(msgs) |-> r[i].saved])]

Strategies == {"progress-collapse", "thinking-strip", "metadata-strip",
               "tool-output-trim"}

\* the strategy of that name applied to a record list: (messages, saved)
Strategy(s, msgs) ==
    IF s = "progress-collapse" THEN collapse_progress(msgs)
    ELSE IF s = "thinking-strip" THEN strip_thinking(msgs)
    ELSE IF s = "metadata-strip" THEN strip_metadata(msgs)
    ELSE trim_tool_output(msgs)

----------------------------------------------------------------------------
(* strip.py: a strategy applied to a record list, then to its own output *)

\* tool outputs as (length of the first line, number of lines, length of
\* each other line): around the two thresholds, and well above them
ToolShapes ==
    {<<74, 100, 81>>, <<8193, 1, 0>>, <<75, 100, 81>>, <<33, 241, 33>>,
     <<7993, 101, 1>>, <<20000, 1, 0>>, <<10, 200, 10>>, <<10, 105, 10>>}

ShapeLines(sh) == [i \in 1..sh[2] |-> XLine(IF i = 1 THEN sh[1] ELSE sh[3])]

ToolResult(c) == [type |-> "tool_result", content |-> c]

ThinkingBlock == [type |-> "thinking", thinking |-> <<"t", "h">>, signature |-> <<"s">>]

SignedText == Block("text", <<"a">>) @@ [signature |-> <<"s">>]

\* the lines a session holds: progress ticks, assistant turns with
\* thinking blocks, signatures and metadata, prompts, tool results
StripLines ==
    {Msg(None, None, "progress", FALSE),
     Turn(None, None, "user", StrContent(<<"a">>)),
     Turn(None, None, "assistant", ListContent(<<ThinkingBlock, SignedText>>))
        @@ [usage |-> 20, stop_reason |-> 10, costUSD |-> 4],
     Turn(None, None, "assistant", ListContent(<<ThinkingBlock>>))
        @@ [duration |-> 3],
     Turn(None, None, "assistant", ListContent(<<Block("text", <<"a">>)>>))
        @@ [stop_sequence |-> 4, apiDuration |-> 3],
     Turn(None, None, "user", ListContent(<<ToolResult(ListOutput)>>))}
    \cup {Turn(None, None, "user", ListContent(<<ToolResult(StrOutput(ShapeLines(sh)))>>)) :
             sh \in ToolShapes}

\* load_messages reads the next line of the session
StripLoad ==
    /\ pc = "idle"
    /\ Len(messages) < StripMsgs
    /\ \E line \in StripLines :
          messages' = Append(messages, Loaded(line, Len(messages)))
    /\ UNCHANGED <<pc, strategy, passes>>
    /\ StripFrame

\* `messages, saved = strategy(messages)`
ApplyStrategy(s) ==
    /\ pc = "idle"
    /\ strategy' = s
    /\ passes' = <<Strategy(s, messages)>>
    /\ pc' = "once"
    /\ UNCHANGED messages
    /\ StripFrame

\* the same strategy on the list the first application returned
ApplyAgain ==
    /\ pc = "once"
    /\ passes' = Append(passes, Strategy(strategy, passes[1].messages))
    /\ pc' = "twice"
    /\ UNCHANGED <<messages, strategy>>
    /\ StripFrame

StripNext ==
    \/ StripLoad
    \/ \E s \in Strategies : ApplyStrategy(s)
    \/ ApplyAgain

StripSpec == GraphInit /\ [][StripNext]_vars

----------------------------------------------------------------------------
(* Properties of the strategies *)

\* the second application returned its input and saved nothing
SecondPassIdle ==
    /\ passes[2].messages = passes[1].messages
    /\ passes[2].saved = 0

\* C6: tool-output-trim applied to its own output returns an identical
\* record list and reports zero bytes saved.
C6_AsStated ==
    pc = "twice" /\ strategy = "tool-output-trim" => SecondPassIdle

\* C7: progress-collapse, thinking-strip and metadata-strip applied to
\* their own output return an identical record list and report zero bytes
\* saved.
C7_Idempotent ==
    pc = "twice" /\ strategy # "tool-output-trim" => SecondPassIdle

\* metadata-strip ran twice on a list it had something to take from
C7_Witness ==
    /\ pc = "twice"
    /\ strategy = "metadata-strip"
    /\ passes[1].saved > 0
    /\ passes[1].messages # messages

\* the tool_result records of the input whose string content is 8193 bytes
Records8193 ==
    {i \in 1..Len(messages) :
        /\ get_content_blocks(messages[i]) # <<>>
        /\ LET block == get_content_blocks(messages[i])[1]
           IN  /\ block.type = "tool_result"
               /\ block.content.str
               /\ Chars(block.content.lines) = 8193}

ContentIn(i) == get_content_blocks(messages[i])[1].content.lines

ContentOut(i) == get_content_blocks(passes[1].messages[i])[1].content.lines

\* first and last 50 lines around the elision marker
LineForm(lines) ==
    SubSeq(lines, 1, 50)
    \o <<XLine(0), Marker("lines", Len(lines) - 100), XLine(0)>>
    \o SubSeq(lines, Len(lines) - 49, Len(lines))

\* first and last 4096 bytes around the elision marker
ByteForm(lines) ==
    Prefix(lines, 4096) \o <<Marker("bytes", 1)>> \o Suffix(lines, 4096)

\* C8 as the claim has it: a tool_result content of 8193 bytes is
\* replaced by the byte-trimmed form when it has at most 100 lines and by
\* the line-trimmed form when it has more.
C8_AsStated ==
    pc = "once" /\ strategy = "tool-output-trim" =>
        \A i \in Records8193 :
            ContentOut(i) = IF Len(ContentIn(i)) <= 100
                            THEN ByteForm(ContentIn(i))
                            ELSE LineForm(ContentIn(i))

\* C8: in a record whose only block is a tool_result with a string content
\* of 8193 bytes, tool-output-trim leaves the content as it is when it has
\* at most 100 lines (the byte-trimmed form is longer than the original),
\* and when it has more than 100 lines replaces it by the line-trimmed
\* form if that form serializes strictly shorter, else leaves it as it is.
C8_TrimmedWhenShorter ==
    pc = "once" /\ strategy = "tool-output-trim" =>
        \A i \in Records8193 :
            ContentOut(i) = IF /\ Len(ContentIn(i)) > 100
                               /\ JsonStr(LineForm(ContentIn(i))) < JsonStr(ContentIn(i))
                            THEN LineForm(ContentIn(i))
                            ELSE ContentIn(i)

\* one 8193-byte content of more than 100 lines replaced by its
\* line-trimmed form, one of a single line left as it was
C8_Witness ==
    /\ pc = "once"
    /\ strategy = "tool-output-trim"
    /\ \E i \in Records8193 :
          /\ Len(ContentIn(i)) > 100
          /\ ContentOut(i) = LineForm(ContentIn(i))
          /\ ContentOut(i) # ContentIn(i)
    /\ \E i \in Records8193 :
          /\ Len(ContentIn(i)) = 1
          /\ ContentOut(i) = ContentIn(i)

----------------------------------------------------------------------------
(* session.py: load_messages and save_messages on a file, step by step *)

\* longest file given to save_messages
SaveLines == 3

NoFile == [exists |-> FALSE, lines |-> <<>>]

\* mutant: the handler re-raises without removing the temporary file
UnlinkForgotten(t) == t

\* `Path(tmp_path).unlink(missing_ok=True)`
Unlink(t) == NoFile

\* a prompt with a non-ASCII character
Accented(u) == Turn(u, None, "user", StrContent(<<"e-acute">>))

\* the file grows by one line: a record, a record with a non-ASCII
\* character written as itself or as an escape, a record with a key that
\* starts with an underscore, or a line that is not JSON
FileAppend ==
    /\ pc = "idle"
    /\ Len(disk) < SaveLines
    /\ \E line \in {dumps(Msg(Len(disk) + 1, None, "user", FALSE)),
                    JsonText(Accented(Len(disk) + 1), FALSE),
                    JsonText(Accented(Len(disk) + 1), TRUE),
                    dumps(("_note" :> 1) @@ Msg(Len(disk) + 1, None, "user", FALSE)),
                    RawText("garbage")} :
          disk' = Append(disk, line)
    /\ UNCHANGED <<messages, pc, iters, backup_file, tmp, previous>>
    /\ SaveFrame

\* messages = load_messages(path)
LoadMessages ==
    /\ pc = "idle"
    /\ messages' = load_messages(disk)
    /\ previous' = disk
    /\ pc' = "loaded"
    /\ UNCHANGED <<disk, iters, backup_file, tmp>>
    /\ SaveFrame

\* the caller takes a record out of its list
DropRecord ==
    /\ pc = "loaded"
    /\ \E i \in 1..Len(messages) :
          messages' = SubSeq(messages, 1, i - 1) \o SubSeq(messages, i + 1, Len(messages))
    /\ UNCHANGED <<pc, disk, iters, backup_file, tmp, previous>>
    /\ SaveFrame

\* save_messages(path, messages, backup=b) up to mkstemp: the copy
SaveStart(b) ==
    /\ pc = "loaded"
    /\ backup_file' = IF b THEN <<disk>> ELSE backup_file
    /\ pc' = "mkstemp"
    /\ UNCHANGED <<messages, disk, iters, tmp, previous>>
    /\ SaveFrame

\* tempfile.mkstemp(dir=path.parent, suffix=".jsonl.tmp")
SaveMkstemp ==
    /\ pc = "mkstemp"
    /\ tmp' = [exists |-> TRUE, lines |-> <<>>]
    /\ pc' = "write"
    /\ UNCHANGED <<messages, disk, iters, backup_file, previous>>
    /\ SaveFrame

\* mkstemp raises: it is outside the try, and there is no temporary file
SaveMkstempRaises ==
    /\ pc = "mkstemp"
    /\ pc' = "raised"
    /\ UNCHANGED <<messages, disk, iters, backup_file, tmp, previous>>
    /\ SaveFrame

\* one round of `for msg in messages: f.write(...)`
SaveWrite ==
    /\ pc = "write"
    /\ iters < Len(messages)
    /\ tmp' = [tmp EXCEPT !.lines = Append(@, SavedLine(messages[iters + 1]))]
    /\ iters' = iters + 1
    /\ UNCHANGED <<messages, pc, disk, backup_file, previous>>
    /\ SaveFrame

\* Path(tmp_path).rename(path)
SaveRename ==
    /\ pc = "write"
    /\ iters = Len(messages)
    /\ disk' = tmp.lines
    /\ tmp' = NoFile
    /\ pc' = "saved"
    /\ UNCHANGED <<messages, iters, backup_file, previous>>
    /\ SaveFrame

\* a write, the close or the rename raises: `except Exception:` removes
\* the temporary file and re-raises
SaveRaises ==
    /\ pc = "write"
    /\ tmp' = Unlink(tmp)
    /\ pc' = "raised"
    /\ UNCHANGED <<messages, disk, iters, backup_file, previous>>
    /\ SaveFrame

\* the process is killed inside save_messages
SaveCrash ==
    /\ pc \in {"mkstemp", "write"}
    /\ pc' = "crashed"
    /\ UNCHANGED <<messages, disk, iters, backup_file, tmp, previous>>
    /\ SaveFrame

SaveNext ==
    \/ FileAppend
    \/ LoadMessages
    \/ DropRecord
    \/ \E b \in BOOLEAN : SaveStart(b)
    \/ SaveMkstemp
    \/ SaveMkstempRaises
    \/ SaveWrite
    \/ SaveRename
    \/ SaveRaises
    \/ SaveCrash

SaveSpec == GraphInit /\ [][SaveNext]_vars

----------------------------------------------------------------------------
(* Properties of load_messages and save_messages *)

\* C11: for a file f whose lines are all compactly serialized JSON objects,
\* load_messages followed by save_messages writes a file identical to f.
C11_AsStated ==
    /\ pc = "saved"
    /\ messages = load_messages(previous)
    /\ \A i \in 1..Len(previous) : Decodable(previous[i])
    => disk = previous

\* C12: from the call of save_messages on, the target file holds its
\* complete previous content or the complete new content; it holds the new
\* content once the rename is done and the previous content until then;
\* and when mkstemp, a write or the rename raises, no temporary file is
\* left and the target holds its previous content.
C12_AtomicSave ==
    pc \in {"mkstemp", "write", "saved", "raised", "crashed"} =>
        /\ disk \in {previous, save_messages(messages)}
        /\ pc = "saved" => disk = save_messages(messages)
        /\ pc # "saved" => disk = previous
        /\ pc = "raised" => ~tmp.exists

\* a write raised after one record was written and before the last one:
\* the target is as it was, differs from the new content, and the
\* temporary file is gone
C12_Witness ==
    /\ pc = "raised"
    /\ iters >= 1
    /\ iters < Len(messages)
    /\ ~tmp.exists
    /\ disk = previous
    /\ disk # save_messages(messages)

----------------------------------------------------------------------------
(* compactor.py, cli.py: a compaction run, step by step *)

\* longest session file given to a run
RunLines == 4

\* what a run leaves alone
RunFrame ==
    UNCHANGED <<current, chain, visited, tail, queue, iters, strategy, passes, tmp,
                response, platform, keychain, calls, loaded, exchanges>>

Logged(op, content) == [op |-> op, content |-> content]

\* the uuids of the lines of a file, in file order
FileUuids(lines) ==
    LET msgs == load_messages(lines)
    IN  SelectSeq([i \in 1..Len(msgs) |-> msgs[i].uuid], LAMBDA u : u # None)

\* the session file grows by one line before the run: a prompt under the
\* last message, a summary sidecar without uuid, or a line that is not JSON
RunAppend ==
    /\ pc = "idle"
    /\ Len(disk) < RunLines
    /\ LET us == FileUuids(disk)
           last == IF us = <<>> THEN None ELSE us[Len(us)]
       IN  \E line \in {dumps(Turn(Len(us) + 1, last, "user", StrContent(<<"a">>))),
                        dumps(Msg(None, None, "summary", FALSE)),
                        RawText("garbage")} :
              disk' = Append(disk, line)
    /\ UNCHANGED <<messages, pc, boundary_uuid, backup_file, tail_uuids, new_messages,
                   stats, count, outcome, previous, log, opts,
                   cred_file, before>>
    /\ RunFrame

\* mutant: compact goes to the strip step without the copy
FirstStepStrip == "strip"

\* the first step of compact after the stat of the file
FirstStep == "backup"

\* compact(session_path, boundary_uuid, summary_text, strip=, backup=) is
\* called
CompactCall(b, strip, backup) ==
    /\ pc = "idle"
    /\ opts' = [entry |-> "compact", strip |-> strip, backup |-> backup,
                dry_run |-> FALSE, topic |-> FALSE]
    /\ boundary_uuid' = b
    /\ previous' = disk
    /\ pc' = FirstStep
    /\ UNCHANGED <<messages, disk, backup_file, tail_uuids, new_messages, stats,
                   count, outcome, log,
                   cred_file, before>>
    /\ RunFrame

\* the arguments compact runs with: cmd_compact calls it with backup=False
\* and strip left at False
BackupArg == opts.entry = "compact" /\ opts.backup
StripArg == opts.entry = "compact" /\ opts.strip

\* `if backup: shutil.copy2(session_path, backup_path)`
CompactBackup ==
    /\ pc = "backup"
    /\ IF BackupArg
       THEN /\ backup_file' = <<disk>>
            /\ log' = Append(log, Logged("backup", disk))
       ELSE UNCHANGED <<backup_file, log>>
    /\ pc' = "strip"
    /\ UNCHANGED <<messages, disk, boundary_uuid, tail_uuids, new_messages, stats,
                   count, outcome, previous, opts,
                   cred_file, before>>
    /\ RunFrame

\* `if strip: run_strip(session_path)`: cozempic, when it is installed,
\* rewrites the file with any of its lines removed; when it is not, the
\* file is left alone
CompactStrip ==
    /\ pc = "strip"
    /\ \/ /\ StripArg
          /\ \E stripped \in SubLists(disk) :
                /\ disk' = stripped
                /\ log' = Append(log, Logged("strip", stripped))
       \/ UNCHANGED <<disk, log>>
    /\ pc' = "load"
    /\ UNCHANGED <<messages, backup_file, boundary_uuid, tail_uuids, new_messages,
                   stats, count, outcome, previous, opts,
                   cred_file, before>>
    /\ RunFrame

\* `messages = load_messages(session_path)`
CompactLoad ==
    /\ pc = "load"
    /\ messages' = load_messages(disk)
    /\ pc' = "check"
    /\ UNCHANGED <<disk, backup_file, boundary_uuid, tail_uuids, new_messages,
                   stats, count, outcome, previous, log, opts,
                   cred_file, before>>
    /\ RunFrame

\* mutant: the boundary is taken to be there
HasBoundaryAlways(msgs, b) == TRUE

\* `boundary_uuid in all_uuids`
HasBoundary(msgs, b) == b \in RecordUuids(msgs)

\* the boundary check, the tail, the check of the tail and the new record
\* list
CompactSplice ==
    /\ pc = "check"
    /\ IF ~HasBoundary(messages, boundary_uuid)
       THEN /\ pc' = "BoundaryNotFound"
            /\ UNCHANGED <<tail_uuids, new_messages>>
       ELSE /\ tail_uuids' = collect_tail_uuids(messages, boundary_uuid)
            /\ IF tail_uuids' = {}
               THEN /\ pc' = "EmptyTail"
                    /\ UNCHANGED new_messages
               ELSE /\ new_messages' = Splice(messages, boundary_uuid, tail_uuids')
                    /\ pc' = "save"
    /\ UNCHANGED <<messages, disk, backup_file, boundary_uuid, stats, count, outcome,
                   previous, log, opts,
                   cred_file, before>>
    /\ RunFrame

\* `save_messages(session_path, new_messages, backup=False)`
CompactSave ==
    /\ pc = "save"
    /\ disk' = save_messages(new_messages)
    /\ log' = Append(log, Logged("save", disk'))
    /\ pc' = "stats"
    /\ UNCHANGED <<messages, backup_file, boundary_uuid, tail_uuids, new_messages,
                   stats, count, outcome, previous, opts,
                   cred_file, before>>
    /\ RunFrame

\* the dict compact returns
CompactReturn ==
    /\ pc = "stats"
    /\ stats' = Stats(Len(messages), new_messages)
    /\ pc' = "compacted"
    /\ UNCHANGED <<messages, disk, backup_file, boundary_uuid, tail_uuids,
                   new_messages, count, outcome, previous, log, opts,
                   cred_file, before>>
    /\ RunFrame

----------------------------------------------------------------------------
(* Properties of a compaction run *)

\* the positions in the log of the writes of the session file
Writes == {j \in 1..Len(log) : log[j].op \in {"strip", "save"}}

\* C13: when backup is enabled, every write of the session file in the run
\* (by the strip step or by the splice save) comes after a copy that holds
\* the content the file had when the run began, in compact() and in the
\* compact command alike.
C13_BackupFirst ==
    opts.backup =>
        \A j \in Writes :
            /\ \E i \in 1..(j - 1) : log[i] = Logged("backup", previous)
            /\ backup_file = <<previous>>

\* compact() with strip and backup copied the file, then cozempic rewrote
\* it with a line less, then the splice was saved
C13_Witness ==
    /\ pc = "compacted"
    /\ opts.entry = "compact" /\ opts.strip /\ opts.backup
    /\ Len(log) = 3
    /\ log[1] = Logged("backup", previous)
    /\ log[2].op = "strip" /\ log[2].content # previous
    /\ log[3].op = "save"
    /\ backup_file = <<previous>>

\* the positions of pc from the boundary check of compact on
AfterCheck == {"BoundaryNotFound", "save", "stats", "compacted"}

\* C14: compact fails with BoundaryNotFound exactly when the boundary uuid
\* is not the uuid of any record loaded from the session file at splice
\* time, and then no splice save has been executed: the session file still
\* holds the lines that were loaded.
C14_BoundaryNotFound ==
    pc \in AfterCheck =>
        /\ pc = "BoundaryNotFound" <=>
              \A i \in 1..Len(messages) : messages[i].uuid # boundary_uuid
        /\ pc = "BoundaryNotFound" =>
              /\ \A j \in 1..Len(log) : log[j].op # "save"
              /\ messages = load_messages(disk)

\* the boundary was in the file when compact was called, cozempic removed
\* its line, and compact failed without saving
C14_Witness ==
    /\ pc = "BoundaryNotFound"
    /\ \E i \in 1..Len(previous) :
          Decodable(previous[i]) /\ loads(previous[i]).uuid = boundary_uuid
    /\ \E j \in 1..Len(log) : log[j].op = "strip"
    /\ disk # previous

\* the loaded records that the written sequence does not hold: a record is
\* told from the others by its line index
Eliminated ==
    {i \in 1..Len(messages) :
        \A j \in 1..Len(new_messages) :
            "line_index" \in DOMAIN new_messages[j] =>
                new_messages[j].line_index # messages[i].line_index}

\* C15: whenever compact succeeds, removed_messages is original_messages -
\* final_messages + 1 and is the number of loaded records that are not in
\* the written sequence.
C15_RemovedCount ==
    pc = "compacted" =>
        /\ stats.removed_messages = stats.original_messages - stats.final_messages + 1
        /\ stats.removed_messages = Cardinality(Eliminated)
        /\ Len(disk) = stats.final_messages

\* the chain A, B, C, D with boundary C: four records loaded, three
\* written, two removed
C15_Witness ==
    /\ pc = "compacted"
    /\ FileUuids(previous) = <<1, 2, 3, 4>>
    /\ Len(previous) = 4
    /\ ~opts.strip
    /\ boundary_uuid = 3
    /\ stats = [original_messages |-> 4, final_messages |-> 3, removed_messages |-> 2]

\* C17: a compaction run, with or without the noise-stripping pre-step,
\* performs exactly one write of the session file.
C17_AsStated ==
    pc = "compacted" => Cardinality(Writes) = 1

\* C18: every opaque record of the loaded sequence is still present, with
\* its raw text, in the sequence compact writes back.
C18_AsStated ==
    pc = "compacted" =>
        \A i \in 1..Len(messages) :
            ParseError(messages[i]) =>
                \E j \in 1..Len(disk) : disk[j] = messages[i]["_raw"]

----------------------------------------------------------------------------
(* compactor.py: find_boundary_by_topic *)

\* longest session given to the topic resolver
TopicMsgs == 2
\* most tokens in the answer of the service
TopicTokens == 2

\* The answer of the service, stripped, is the sequence of its
\* whitespace-separated tokens.  A token is a word with or without
\* characters of '"`,. around it; a word is a uuid, the sentinel, or 0 for
\* a word that is neither.
NOT_FOUND == -1

Token(word, punct) == [word |-> word, punct |-> punct]

\* token.strip("'\"`,.")
StripPunct(token) == token.word

\* is the whole text this word: one token, nothing around it
TextIs(resp, word) == resp = <<Token(word, FALSE)>>

\* mutant: the first token is taken without looking it up
TokenHitsUnchecked(resp, valid_uuids) == 1..Len(resp)

\* the tokens for which `clean in valid_uuids`
TokenHits(resp, valid_uuids) ==
    {i \in 1..Len(resp) : StripPunct(resp[i]) \in valid_uuids}

\* find_boundary_by_topic from `result = response.content[0].text.strip()`
\* on: the uuid returned, or the ValueError raised ("TopicNotFound" is the
\* "Topic ... not found" message, "InvalidResponse" the "LLM returned an
\* invalid UUID" one)
find_boundary_by_topic(exs, resp) ==
    LET valid_uuids == {exs[i].uuid : i \in 1..Len(exs)}
        hits == TokenHits(resp, valid_uuids)
    IN  IF TextIs(resp, NOT_FOUND)
        THEN [status |-> "TopicNotFound", uuid |-> None]
        ELSE IF \E u \in valid_uuids : TextIs(resp, u)
        THEN [status |-> "ok", uuid |-> resp[1].word]
        ELSE IF hits # {}
        THEN [status |-> "ok",
              uuid |-> StripPunct(resp[CHOOSE i \in hits : \A j \in hits : i <= j])]
        ELSE [status |-> "InvalidResponse", uuid |-> None]

\* load_messages appends the next line of a session: a prompt or an answer
\* with a new uuid under any earlier turn or under none
TopicLoad ==
    /\ pc = "idle"
    /\ Len(messages) < TopicMsgs
    /\ \E p \in 0..Len(messages) :
       \E t \in {"user", "assistant"} :
          messages' = Append(messages,
                             Loaded(Turn(Len(messages) + 1, p, t, StrContent(<<"a">>)),
                                    Len(messages)))
    /\ UNCHANGED <<pc, outcome, response>>
    /\ TopicFrame

\* the service adds a token to its answer
ServiceAnswers ==
    /\ pc = "idle"
    /\ Len(response) < TopicTokens
    /\ \E word \in NOT_FOUND..(TopicMsgs + 1), punct \in BOOLEAN :
          response' = Append(response, Token(word, punct))
    /\ UNCHANGED <<messages, pc, outcome>>
    /\ TopicFrame

\* find_boundary_by_topic(extract_exchanges(messages), topic, client, model)
FindBoundaryByTopic ==
    /\ pc = "idle"
    /\ outcome' = find_boundary_by_topic(extract_exchanges(messages), response)
    /\ pc' = "topic_resolved"
    /\ UNCHANGED <<messages, response>>
    /\ TopicFrame

TopicNext ==
    \/ TopicLoad
    \/ ServiceAnswers
    \/ FindBoundaryByTopic

TopicSpec == GraphInit /\ [][TopicNext]_vars

----------------------------------------------------------------------------
(* Properties of find_boundary_by_topic *)

ExchangeUuids ==
    {extract_exchanges(messages)[i].uuid : i \in 1..Len(extract_exchanges(messages))}

\* the words of the answer, the characters '"`,. around them left out
Words == {response[i].word : i \in 1..Len(response)}

\* C16: find_boundary_by_topic fails with TopicNotFound when the answer is
\* the sentinel; otherwise a value it returns is an exchange uuid, the
\* whole answer or a token of it, and it fails with InvalidResponse when
\* neither the answer nor any of its tokens is an exchange uuid.
C16_ValidatedUuid ==
    pc = "topic_resolved" =>
        IF response = <<Token(NOT_FOUND, FALSE)>>
        THEN outcome.status = "TopicNotFound"
        ELSE IF Words \cap ExchangeUuids = {}
        THEN outcome.status = "InvalidResponse"
        ELSE /\ outcome.status = "ok"
             /\ outcome.uuid \in ExchangeUuids
             /\ outcome.uuid \in Words

\* the answer was a word that is no uuid and then the uuid of the second
\* exchange in quotes: that uuid was returned
C16_Witness ==
    /\ pc = "topic_resolved"
    /\ response = <<Token(0, FALSE), Token(2, TRUE)>>
    /\ 2 \in ExchangeUuids
    /\ outcome = [status |-> "ok", uuid |-> 2]

----------------------------------------------------------------------------
(* auth.py: the credential stores *)

\* A store (a Keychain item, the credentials file) holds nothing, a text
\* that is not JSON ("garbage"), a JSON value that is no object ("list"),
\* or an object ("dict"): its claudeAiOauth entry (0 when the key is
\* absent or its value empty, else the credentials) and whether it has
\* another key, otherKey, as well.
Dict(oauth, other) == [kind |-> "dict", oauth |-> oauth, other |-> other]

Garbage == [kind |-> "garbage", oauth |-> 0, other |-> 0]

NotADict == [kind |-> "list", oauth |-> 0, other |-> 0]

\* _KEYCHAIN_SERVICE_NAMES, by position
KeychainServices == <<1, 2, 3>>

Find(service, ok) == [op |-> "find", service |-> service, ok |-> ok]

\* the `security find-generic-password` calls of _load_keychain_credentials
\* when the queries of the services in `down` time out or fail: it stops
\* at the first service that answers with an object that has credentials
RECURSIVE KeychainQueries(_, _, _)
KeychainQueries(kc, down, i) ==
    IF i > Len(KeychainServices) THEN <<>>
    ELSE IF i \notin down /\ kc[i].kind = "dict" /\ kc[i].oauth # 0
    THEN <<Find(i, TRUE)>>
    ELSE <<Find(i, i \notin down)>> \o KeychainQueries(kc, down, i + 1)

\* _load_keychain_credentials(): (oauth, "claude-code-keychain") or None
load_keychain_credentials(kc, down) ==
    LET q == KeychainQueries(kc, down, 1)
        hit == q[Len(q)]
    IN  IF hit.ok /\ kc[hit.service].kind = "dict" /\ kc[hit.service].oauth # 0
        THEN [status |-> "ok", creds |-> kc[hit.service].oauth,
              source |-> "claude-code-keychain"]
        ELSE NoCreds

\* _load_file_credentials(): (oauth, "claude-code"), None, or the
\* AttributeError of data.get on a JSON value that is no object
load_file_credentials(file) ==
    IF file.kind = "list" THEN [status |-> "AttributeError", creds |-> 0, source |-> ""]
    ELSE IF file.kind = "dict" /\ file.oauth # 0
    THEN [status |-> "ok", creds |-> file.oauth, source |-> "claude-code"]
    ELSE NoCreds

\* mutant: the Keychain is queried on every platform
OnDarwinAlways(p) == TRUE

\* `sys.platform == "darwin"`
OnDarwin(p) == p = "darwin"

\* the environment: the platform and what the stores hold
SetPlatform ==
    /\ pc = "idle"
    /\ platform' \in {"darwin", "linux"}
    /\ UNCHANGED <<pc, keychain, cred_file, calls, loaded, before>>
    /\ AuthFrame

SetKeychain ==
    /\ pc = "idle"
    /\ \E s \in 1..Len(KeychainServices) :
       \E v \in {NoStore, Garbage, Dict(1, 0), Dict(1, 1), Dict(0, 1)} :
          keychain' = [keychain EXCEPT ![s] = v]
    /\ UNCHANGED <<pc, platform, cred_file, calls, loaded, before>>
    /\ AuthFrame

SetFile ==
    /\ pc = "idle"
    /\ cred_file' \in {NoStore, Garbage, NotADict, Dict(1, 0), Dict(1, 1), Dict(0, 1)}
    /\ UNCHANGED <<pc, platform, keychain, calls, loaded, before>>
    /\ AuthFrame

\* _load_credentials(), the queries of the services in `down` failing
LoadCredentials(down) ==
    /\ pc = "idle"
    /\ LET kc == load_keychain_credentials(keychain, down)
       IN  IF OnDarwin(platform) /\ kc.status = "ok"
           THEN /\ loaded' = kc
                /\ calls' = KeychainQueries(keychain, down, 1)
           ELSE /\ loaded' = load_file_credentials(cred_file)
                /\ calls' = (IF OnDarwin(platform)
                             THEN KeychainQueries(keychain, down, 1) ELSE <<>>)
                            \o <<[op |-> "read_file"]>>
    /\ pc' = "creds_loaded"
    /\ UNCHANGED <<platform, keychain, cred_file, before>>
    /\ AuthFrame

\* the credentials a token refresh returns in place of c
Refreshed(c) == c + 1

\* _save_keychain_credentials: the object it passes to `security
\* add-generic-password ... -U`.  `existing` is the item of the first
\* service name when the query answers with an object, and {} otherwise
\* (no item, another value, a timeout or any other exception)
KeychainPayload(kc, creds, find_ok) ==
    LET existing == IF find_ok /\ kc[1].kind = "dict" THEN kc[1] ELSE Dict(0, 0)
    IN  [existing EXCEPT !.oauth = creds]

\* _save_file_credentials: the object it writes, for a file that is
\* missing, not JSON, or an object
FilePayload(file, creds) ==
    LET existing == IF file.kind = "dict" THEN file ELSE Dict(0, 0)
    IN  [existing EXCEPT !.oauth = creds]

\* _save_credentials(creds, source) with the refreshed credentials and the
\* source _load_credentials gave; the query of the Keychain and the write
\* succeed or fail as find_ok and write_ok say.  A file that holds a JSON
\* value that is no object makes `existing["claudeAiOauth"] = creds` raise
\* and nothing is written.
SaveCredentials(find_ok, write_ok) ==
    /\ pc = "creds_loaded"
    /\ loaded.status = "ok"
    /\ before' = [keychain |-> keychain[1], cred_file |-> cred_file]
    /\ IF loaded.source = "claude-code-keychain"
       THEN /\ keychain' = IF write_ok
                           THEN [keychain EXCEPT ![1] =
                                    KeychainPayload(keychain, Refreshed(loaded.creds), find_ok)]
                           ELSE keychain
            /\ calls' = calls \o <<Find(1, find_ok), [op |-> "add", ok |-> write_ok]>>
            /\ UNCHANGED cred_file
       ELSE /\ cred_file' = IF write_ok /\ cred_file.kind # "list"
                            THEN FilePayload(cred_file, Refreshed(loaded.creds))
                            ELSE cred_file
            /\ calls' = calls \o <<[op |-> "read_file"]>>
                        \o (IF cred_file.kind = "list" THEN <<>>
                            ELSE <<[op |-> "write_file", ok |-> write_ok]>>)
            /\ UNCHANGED keychain
    /\ pc' = "creds_saved"
    /\ UNCHANGED <<platform, loaded>>
    /\ AuthFrame

AuthNext ==
    \/ SetPlatform
    \/ SetKeychain
    \/ SetFile
    \/ \E down \in SUBSET (1..Len(KeychainServices)) : LoadCredentials(down)
    \/ \E find_ok \in BOOLEAN, write_ok \in BOOLEAN : SaveCredentials(find_ok, write_ok)

AuthSpec == GraphInit /\ [][AuthNext]_vars

----------------------------------------------------------------------------
(* Properties of the credential stores *)

\* the calls of _load_credentials: those logged before the save
LoadCalls == SelectSeq(calls, LAMBDA c : c.op \notin {"add", "write_file"})

\* the services whose query answered with an object that has credentials
Yielding ==
    {i \in 1..Len(calls) :
        /\ calls[i].op = "find"
        /\ calls[i].ok
        /\ keychain[calls[i].service].kind = "dict"
        /\ keychain[calls[i].service].oauth # 0}

\* what the credentials file gives: its claudeAiOauth entry, nothing, or
\* the error of a file that holds no object
FileResult ==
    IF cred_file.kind = "list" THEN [status |-> "AttributeError", creds |-> 0, source |-> ""]
    ELSE IF cred_file.kind = "dict" /\ cred_file.oauth # 0
    THEN [status |-> "ok", creds |-> cred_file.oauth, source |-> "claude-code"]
    ELSE NoCreds

\* C19: on darwin _load_credentials queries the Keychain first and, when
\* the Keychain yields credentials, returns them without reading the
\* credentials file; it reads the file, after querying every service name,
\* only when the Keychain yields none.  On another platform the Keychain is
\* never queried and the result is that of the file.
C19_StoreOrder ==
    pc = "creds_loaded" =>
        IF platform = "darwin"
        THEN /\ calls[1].op = "find"
             /\ IF Yielding # {}
                THEN /\ \A i \in 1..Len(calls) : calls[i].op = "find"
                     /\ Yielding = {Len(calls)}
                     /\ loaded = [status |-> "ok",
                                  creds |-> keychain[calls[Len(calls)].service].oauth,
                                  source |-> "claude-code-keychain"]
                ELSE /\ Len(calls) = Len(KeychainServices) + 1
                     /\ \A i \in 1..Len(KeychainServices) :
                           calls[i].op = "find" /\ calls[i].service = i
                     /\ calls[Len(calls)].op = "read_file"
                     /\ loaded = FileResult
        ELSE /\ calls = <<[op |-> "read_file"]>>
             /\ loaded = FileResult

\* on darwin the first service name timed out, the second one yielded
\* credentials, and the file, which holds credentials too, was not read
C19_Witness ==
    /\ pc = "creds_loaded"
    /\ platform = "darwin"
    /\ calls = <<Find(1, FALSE), Find(2, TRUE)>>
    /\ cred_file.oauth # 0
    /\ loaded.source = "claude-code-keychain"

\* the store the save wrote to, after and before
SavedStore ==
    IF loaded.source = "claude-code-keychain" THEN keychain[1] ELSE cred_file

StoreBefore ==
    IF loaded.source = "claude-code-keychain" THEN before.keychain ELSE before.cred_file

\* C20: a save that writes leaves the store holding the refreshed
\* credentials under claudeAiOauth and every other key it held before
\* (none when it held no object), and no delete is issued.
C20_AsStated ==
    /\ pc = "creds_saved"
    /\ calls[Len(calls)].op \in {"add", "write_file"}
    /\ calls[Len(calls)].ok
    => /\ SavedStore = Dict(Refreshed(loaded.creds),
                            IF StoreBefore.kind = "dict" THEN StoreBefore.other ELSE 0)
       /\ \A i \in 1..Len(calls) : calls[i].op # "delete"

----------------------------------------------------------------------------
(* compactor.py: compact on sessions that branch *)

\* longest session file given to the splice
SpliceLines == 4

\* the session file grows by one line before compact is run.  A line that
\* brings a new uuid brings the next unused one.  The line is a prompt
\* (under no record, under the last or the first one, or under the one
\* that comes next), a prompt of a sidechain or a prompt with a key that
\* starts with an underscore under the last record, a second record with
\* the uuid of the first one, a file-history-snapshot with a uuid of its
\* own that points at the last record, or a summary sidecar without uuid.
SpliceAppend ==
    /\ pc = "idle"
    /\ Len(disk) < SpliceLines
    /\ LET us == FileUuids(disk)
           next == MaxUuid(load_messages(disk)) + 1
           last == IF us = <<>> THEN None ELSE us[Len(us)]
       IN  \E line \in {Msg(next, p, "user", FALSE) :
                           p \in {None, last, Min(1, next - 1), next + 1}}
                      \cup {Msg(next, last, "user", TRUE),
                            ("_note" :> 1) @@ Msg(next, last, "user", FALSE),
                            Msg(Min(1, next - 1), last, "user", FALSE),
                            MsgId(next, None, "file-history-snapshot", last),
                            Msg(None, None, "summary", FALSE)} :
              disk' = Append(disk, dumps(line))
    /\ UNCHANGED <<messages, pc, boundary_uuid, backup_file, tail_uuids,
                   new_messages, stats>>
    /\ CompactFrame

\* the session compact wrote is opened again: walk_main_chain on the
\* records loaded from the file
WalkWritten ==
    /\ pc = "compacted"
    /\ chain' = walk_main_chain(load_messages(disk))
    /\ pc' = "rewalked"
    /\ UNCHANGED <<messages, disk, boundary_uuid, backup_file, tail_uuids,
                   new_messages, stats, current, visited, tail, queue, iters,
                   count, outcome, strategy, passes, saveVars, response, authVars,
                   exchanges>>

SpliceNext ==
    \/ SpliceAppend
    \/ \E b \in 1..SpliceLines : Compact(b, FALSE, FALSE)
    \/ WalkWritten

SpliceSpec == GraphInit /\ [][SpliceNext]_vars

----------------------------------------------------------------------------
(* Properties of the splice *)

\* the three kinds of record the written sequence is said to hold
Selected(msg) ==
    \/ msg.uuid # None /\ msg.uuid \in tail_uuids
    \/ msg.type \in {"file-history-snapshot", "queue-operation", "summary"}
          /\ msg.uuid = None
    \/ msg.type = "file-history-snapshot" /\ msg.messageId \in tail_uuids

\* the positions of the loaded records that are selected
SelectedAt == {i \in 1..Len(messages) : Selected(messages[i])}

\* the k-th selected position, in file order
NthSelected(k) ==
    CHOOSE i \in SelectedAt : Cardinality({j \in SelectedAt : j < i}) = k - 1

\* C21: the sequence compact writes is the summary record followed by
\* exactly the loaded records, in their file order, that have a uuid in the
\* tail set, or are a file-history-snapshot, queue-operation or summary
\* without uuid, or are a file-history-snapshot whose messageId is in the
\* tail set; every other loaded record is dropped.
C21_WrittenSequence ==
    pc = "compacted" =>
        /\ Len(disk) = 1 + Cardinality(SelectedAt)
        /\ Len(new_messages) = Len(disk)
        /\ loads(disk[1]).type = "summary"
        /\ loads(disk[1]).uuid \notin RecordUuids(messages)
        /\ \A k \in 1..Cardinality(SelectedAt) :
              /\ new_messages[k + 1].line_index = NthSelected(k) - 1
              /\ loads(disk[k + 1]).uuid = messages[NthSelected(k)].uuid
              /\ loads(disk[k + 1]).type = messages[NthSelected(k)].type
              /\ loads(disk[k + 1]).messageId = messages[NthSelected(k)].messageId

\* the first record is dropped; the boundary, a snapshot with a uuid of its
\* own that points at the boundary, and a sidecar are written in that order
C21_Witness ==
    /\ pc = "compacted"
    /\ Len(messages) = 4
    /\ boundary_uuid = 2
    /\ SelectedAt = {2, 3, 4}
    /\ messages[3].type = "file-history-snapshot"
    /\ messages[3].uuid \notin tail_uuids \cup {None}
    /\ messages[4].uuid = None
    /\ Len(disk) = 4

\* the fields a loaded record had in the file: all but the line index that
\* load_messages adds
FileFields(msg) == [k \in DOMAIN msg \ {"line_index"} |-> msg[k]]

\* the loaded record that the k-th written record comes from
SourceOf(k) == messages[new_messages[k].line_index + 1]

\* C22: in the written sequence the summary record has parentUuid null,
\* every record whose uuid is the boundary uuid has the summary's uuid as
\* parentUuid, and every other retained record has exactly the fields and
\* the parentUuid it had when loaded.
C22_AsStated ==
    pc = "compacted" =>
        /\ loads(disk[1]).parentUuid = None
        /\ \A k \in 2..Len(disk) :
              IF loads(disk[k]).uuid = boundary_uuid
              THEN loads(disk[k]) =
                      [FileFields(SourceOf(k)) EXCEPT !.parentUuid = loads(disk[1]).uuid]
              ELSE loads(disk[k]) = FileFields(SourceOf(k))

----------------------------------------------------------------------------
(* session.py: walk_main_chain on sessions with sidechains *)

\* longest record list given to the walk
SideMsgs == 3

\* load_messages appends one more parsed line: a user or assistant message
\* with a new uuid, of the main conversation or of a sidechain (a sub-agent
\* transcript), under any earlier record or under none
SideLoad ==
    /\ pc = "idle"
    /\ Len(messages) < SideMsgs
    /\ \E p \in 0..Len(messages), t \in {"user", "assistant"}, side \in BOOLEAN :
          messages' = Append(messages,
                             Loaded(Msg(Len(messages) + 1, p, t, side), Len(messages)))
    /\ UNCHANGED <<pc, boundary_uuid, current, chain, visited, tail, queue, iters>>
    /\ GraphFrame

SideNext ==
    \/ SideLoad
    \/ WalkStart
    \/ WalkStep
    \/ WalkReverse

SideSpec == GraphInit /\ [][SideNext]_vars

\* C23: no record of the sequence walk_main_chain returns has isSidechain
\* set, for every record sequence.
C23_AsStated ==
    pc = "walk_done" => \A i \in 1..Len(chain) : ~messages[chain[i]].isSidechain

----------------------------------------------------------------------------
(* session.py: extract_exchanges on a loaded session *)

\* longest record list given to extract_exchanges
ExchangeMsgs == 3

\* the contents of a message: a prompt with blanks around it, a blank
\* string, none, two text blocks, a text block with a tool_result, a
\* thinking block with a blank text block
ExchangeContents ==
    {StrContent(<<" ", "a", " ">>),
     StrContent(<<" ">>),
     NoContent,
     ListContent(<<Block("text", <<"a">>), Block("text", <<"b">>)>>),
     ListContent(<<Block("text", <<"a">>), Block("tool_result", <<>>)>>),
     ListContent(<<Block("thinking", <<"t">>), Block("text", <<" ">>)>>)}

\* load_messages appends the next line of a session: a user or assistant
\* turn, or a progress tick that carries a text, with a new uuid under any
\* earlier record or under none
ExchangeLoad ==
    /\ pc = "idle"
    /\ Len(messages) < ExchangeMsgs
    /\ \E p \in 0..Len(messages) :
       \E line \in {Turn(Len(messages) + 1, p, t, c) :
                       t \in {"user", "assistant"}, c \in ExchangeContents}
                   \cup {[Msg(Len(messages) + 1, p, "progress", FALSE)
                             EXCEPT !.role = "assistant",
                                    !.content = StrContent(<<"a">>)]} :
          messages' = Append(messages, Loaded(line, Len(messages)))
    /\ UNCHANGED <<pc, chain, exchanges>>
    /\ ExchangeFrame

\* exchanges = extract_exchanges(messages)
ExtractExchanges ==
    /\ pc = "idle"
    /\ chain' = walk_main_chain(messages)
    /\ exchanges' = extract_exchanges(messages)
    /\ pc' = "extracted"
    /\ UNCHANGED messages
    /\ ExchangeFrame

ExchangeNext ==
    \/ ExchangeLoad
    \/ ExtractExchanges

ExchangeSpec == GraphInit /\ [][ExchangeNext]_vars

----------------------------------------------------------------------------
(* Properties of extract_exchanges *)

\* the text of a record's content: the string, or the text blocks joined
ContentText(msg) ==
    IF msg.content.kind = "str" THEN msg.content.text
    ELSE Join(TextParts(msg.content.blocks))

\* has the content a tool_result block
HasToolResult(msg) ==
    /\ msg.content.kind = "list"
    /\ \E i \in 1..Len(msg.content.blocks) : msg.content.blocks[i].type = "tool_result"

\* the position in the chain of the record an exchange was made from: the
\* one with its line index
ChainPos(ex) ==
    CHOOSE j \in 1..Len(chain) : messages[chain[j]].line_index = ex.line_index

\* C24: the exchanges come in main-chain order, at most one per main-chain
\* record, and only from records of type user or assistant whose content
\* gives a text that is not empty after trimming; a record with a
\* tool_result block among its blocks yields none, and each exchange
\* carries the uuid of its source record.
C24_Exchanges ==
    pc = "extracted" =>
        /\ \A k \in 1..Len(exchanges) :
              /\ \E j \in 1..Len(chain) :
                    messages[chain[j]].line_index = exchanges[k].line_index
              /\ LET src == messages[chain[ChainPos(exchanges[k])]]
                 IN  /\ src.type \in {"user", "assistant"}
                     /\ \E i \in 1..Len(ContentText(src)) : ContentText(src)[i] # " "
                     /\ ~HasToolResult(src)
                     /\ exchanges[k].uuid = src.uuid
                     /\ exchanges[k].text # <<>>
                     /\ Head(exchanges[k].text) # " "
                     /\ exchanges[k].text[Len(exchanges[k].text)] # " "
        /\ \A k, l \in 1..Len(exchanges) :
              k < l => ChainPos(exchanges[k]) < ChainPos(exchanges[l])

\* a chain of three records: the first and the last gave an exchange, the
\* one between them, with a tool_result block, gave none
C24_Witness ==
    /\ pc = "extracted"
    /\ Len(chain) = 3
    /\ HasToolResult(messages[chain[2]])
    /\ Len(exchanges) = 2
    /\ exchanges[1].uuid = messages[chain[1]].uuid
    /\ exchanges[2].uuid = messages[chain[3]].uuid

----------------------------------------------------------------------------
(* Properties of tool-output-trim at its thresholds *)

\* the records of the input whose first block is a tool_result with a
\* string content
ToolStringRecords ==
    {i \in 1..Len(messages) :
        /\ get_content_blocks(messages[i]) # <<>>
        /\ get_content_blocks(messages[i])[1].type = "tool_result"
        /\ get_content_blocks(messages[i])[1].content.str}

\* C25 as stated: tool-output-trim changes a tool_result block only when
\* its string content exceeds both 8192 bytes and 100 lines.
C25_AsStated ==
    pc = "once" /\ strategy = "tool-output-trim" =>
        \A i \in ToolStringRecords :
            ContentOut(i) # ContentIn(i) =>
                Chars(ContentIn(i)) > 8192 /\ Len(ContentIn(i)) > 100

\* C25 amended: tool-output-trim changes a tool_result block only when its
\* string content exceeds 8192 bytes or 100 lines; a block that exceeds
\* neither is left untouched, and so is every block whose content is not a
\* string.
C25_TrimmedWhenEither ==
    pc = "once" /\ strategy = "tool-output-trim" =>
        /\ \A i \in ToolStringRecords :
              ContentOut(i) # ContentIn(i) =>
                  Chars(ContentIn(i)) > 8192 \/ Len(ContentIn(i)) > 100
        /\ \A i \in (1..Len(messages)) \ ToolStringRecords :
              passes[1].messages[i] = messages[i]

\* a content of 200 short lines, far below 8192 bytes, was trimmed, and a
\* content of exactly 100 lines and 8192 bytes was left as it was
C25_Witness ==
    /\ pc = "once"
    /\ strategy = "tool-output-trim"
    /\ \E i \in ToolStringRecords :
          /\ Len(ContentIn(i)) = 200
          /\ Chars(ContentIn(i)) < 8192
          /\ ContentOut(i) # ContentIn(i)
    /\ \E i \in ToolStringRecords :
          /\ Len(ContentIn(i)) = 100
          /\ Chars(ContentIn(i)) = 8192
          /\ ContentOut(i) = ContentIn(i)

----------------------------------------------------------------------------
(* strip.py: strip_messages on a session with progress ticks *)

\* longest record list given to strip_messages
NoiseMsgs == 4

\* what strip_messages leaves alone
NoiseFrame ==
    UNCHANGED <<boundary_uuid, current, visited, tail, queue, iters,
                disk, backup_file, tail_uuids, new_messages, stats, count, outcome,
                strategy, saveVars, response, authVars>>

\* the four strategies in the order strip_messages applies them, each on
\* the list the one before it returned: what each returned
StripPasses(msgs) ==
    LET p1 == collapse_progress(msgs)
        p2 == strip_thinking(p1.messages)
        p3 == strip_metadata(p2.messages)
        p4 == trim_tool_output(p3.messages)
    IN  <<p1, p2, p3, p4>>

\* load_messages appends the next line of a session: a progress tick
\* without uuid, a progress tick with a uuid under the last record, or,
\* under the last record too, a prompt, an answer with a thinking block and
\* usage statistics, or a tool result of two lines
NoiseLoad ==
    /\ pc = "idle"
    /\ Len(messages) < NoiseMsgs
    /\ LET next == MaxUuid(messages) + 1
           last == MaxUuid(messages)
       IN  \E line \in {Msg(None, None, "progress", FALSE),
                        Msg(next, last, "progress", FALSE),
                        Turn(next, last, "user", StrContent(<<"a">>)),
                        Turn(next, last, "assistant",
                             ListContent(<<ThinkingBlock, SignedText>>)) @@ [usage |-> 20],
                        Turn(next, last, "user",
                             ListContent(<<ToolResult(StrOutput(ShapeLines(<<10, 2, 10>>)))>>))} :
              messages' = Append(messages, Loaded(line, Len(messages)))
    /\ UNCHANGED <<pc, passes, chain, exchanges>>
    /\ NoiseFrame

\* `messages, stats = strip_messages(messages)`
StripMessages ==
    /\ pc = "idle"
    /\ passes' = StripPasses(messages)
    /\ pc' = "stripped"
    /\ UNCHANGED <<messages, chain, exchanges>>
    /\ NoiseFrame

\* extract_exchanges on the list strip_messages returned, the list of its
\* last strategy
ExtractStripped ==
    /\ pc = "stripped"
    /\ chain' = walk_main_chain(passes[4].messages)
    /\ exchanges' = extract_exchanges(passes[4].messages)
    /\ pc' = "stripped_extracted"
    /\ UNCHANGED <<messages, passes>>
    /\ NoiseFrame

NoiseNext ==
    \/ NoiseLoad
    \/ StripMessages
    \/ ExtractStripped

NoiseSpec == GraphInit /\ [][NoiseNext]_vars

----------------------------------------------------------------------------
(* Properties of progress-collapse and of strip_messages *)

\* the positions of the records that are not followed by a progress record
\* of the same run: the non-progress records and the last record of every
\* maximal run of progress records
LastOfRunOrOther ==
    {i \in 1..Len(messages) :
        \/ messages[i].type # "progress"
        \/ i = Len(messages)
        \/ messages[i + 1].type # "progress"}

\* C26: progress-collapse keeps exactly the last record of every maximal
\* run of consecutive progress records and every non-progress record, in
\* their original relative order, so that its output has no two adjacent
\* progress records.
C26_ProgressCollapse ==
    pc \in {"stripped", "stripped_extracted"} =>
        LET out == passes[1].messages
        IN  /\ Len(out) = Cardinality(LastOfRunOrOther)
            /\ \A k \in 1..Len(out) :
                  /\ out[k].line_index + 1 \in LastOfRunOrOther
                  /\ out[k] = messages[out[k].line_index + 1]
            /\ \A k \in 1..(Len(out) - 1) :
                  /\ out[k].line_index < out[k + 1].line_index
                  /\ ~(out[k].type = "progress" /\ out[k + 1].type = "progress")

\* two ticks, a prompt, a tick: the second tick, the prompt and the last
\* tick are kept
C26_Witness ==
    /\ pc = "stripped"
    /\ Len(messages) = 4
    /\ messages[1].type = "progress" /\ messages[2].type = "progress"
    /\ messages[3].type = "user" /\ messages[4].type = "progress"
    /\ passes[1].messages = <<messages[2], messages[3], messages[4]>>
    /\ passes[1].saved = msg_bytes(messages[1])

\* an exchange as the claim compares it: uuid, role and text
ExchangeView(exs) ==
    [i \in 1..Len(exs) |-> [uuid |-> exs[i].uuid, role |-> exs[i].role, text |-> exs[i].text]]

\* C29: extract_exchanges applied to the output of strip_messages yields
\* the same sequence of exchanges (uuids, roles, text, order) as applied to
\* its input.
C29_AsStated ==
    pc = "stripped_extracted" =>
        ExchangeView(exchanges) = ExchangeView(extract_exchanges(messages))

\* the uuids of the records at the given positions of a record list
UuidsAt(msgs, ch) == [k \in 1..Len(ch) |-> msgs[ch[k]].uuid]

\* the main chain of the session as compact loaded it, as uuids
OriginalChain == UuidsAt(messages, walk_main_chain(messages))

\* the part of a sequence of uuids from the first occurrence of b on
SuffixFrom(us, b) ==
    SubSeq(us, CHOOSE k \in 1..Len(us) : us[k] = b /\ \A j \in 1..(k - 1) : us[j] # b,
           Len(us))

\* C27: for a record sequence with unique uuids and a boundary on its main
\* chain, the main chain of the sequence compact wrote is the summary
\* record followed by the suffix of the original main chain that starts at
\* the boundary record.
C27_ChainAfterCompact ==
    /\ pc = "rewalked"
    /\ UniqueUuids(messages)
    /\ \E k \in 1..Len(OriginalChain) : OriginalChain[k] = boundary_uuid
    => UuidsAt(load_messages(disk), chain)
          = <<loads(disk[1]).uuid>> \o SuffixFrom(OriginalChain, boundary_uuid)

\* a chain of three prompts and a branch under the first one, compacted at
\* the second prompt of the chain: the written chain is the summary, that
\* prompt and the last one
C27_Witness ==
    /\ pc = "rewalked"
    /\ UniqueUuids(messages)
    /\ Len(messages) = 4
    /\ OriginalChain = <<1, 3, 4>>
    /\ messages[2].parentUuid = 1
    /\ boundary_uuid = 3
    /\ UuidsAt(load_messages(disk), chain) = <<5, 3, 4>>

----------------------------------------------------------------------------
(* cli.py: cmd_compact *)

\* Claude Code stores the credentials of a login in its file, next to
\* another key
RunCredentials ==
    /\ pc = "idle"
    /\ cred_file = NoStore
    /\ cred_file' = Dict(1, 1)
    /\ UNCHANGED <<messages, pc, disk, backup_file, boundary_uuid, tail_uuids,
                   new_messages, stats, count, outcome, previous, log, opts, before>>
    /\ RunFrame

\* create_client() where sys.platform is not darwin: whether it returns a
\* client, and what it leaves in the credentials file.  A key or a token
\* in the environment, or a stored token that is not near expiry, gives a
\* client and touches nothing; a stored token near expiry is refreshed and
\* _save_credentials writes the new one into the file, or the refresh
\* fails and RuntimeError is raised; without environment and without
\* stored credentials RuntimeError is raised
ClientOutcomes(file) ==
    LET ld == load_file_credentials(file)
    IN  {[ok |-> TRUE, file |-> file], [ok |-> FALSE, file |-> file]}
        \cup (IF ld.status = "ok"
              THEN {[ok |-> TRUE, file |-> FilePayload(file, Refreshed(ld.creds))]}
              ELSE {})

\* the one-word answers of the service to the topic question
CliAnswers == {<<Token(word, FALSE)>> : word \in NOT_FOUND..RunLines}

\* mutant: the flag is not looked at
DryRunIgnored(o) == FALSE

\* `args.dry_run`
DryRun(o) == o.dry_run

\* cmd_compact with --last n or --topic, --strip, --no-backup and --dry-run
\* as given, up to `messages = load_messages(session_path)`
CmdCompact(n, strip, no_backup, dry_run, topic) ==
    /\ pc = "idle"
    /\ opts' = [entry |-> "cli", strip |-> strip, backup |-> ~no_backup,
                dry_run |-> dry_run, topic |-> topic]
    /\ count' = IF topic THEN 0 ELSE n
    /\ previous' = disk
    /\ before' = [before EXCEPT !.cred_file = cred_file]
    /\ messages' = load_messages(disk)
    /\ pc' = "cli_backup"
    /\ UNCHANGED <<disk, backup_file, boundary_uuid, tail_uuids, new_messages, stats,
                   outcome, log, cred_file>>
    /\ RunFrame

\* `if not args.no_backup and not args.dry_run: shutil.copy2(...)`
CliBackup ==
    /\ pc = "cli_backup"
    /\ IF opts.backup /\ ~DryRun(opts)
       THEN /\ backup_file' = <<disk>>
            /\ log' = Append(log, Logged("backup", disk))
       ELSE UNCHANGED <<backup_file, log>>
    /\ pc' = "cli_strip"
    /\ UNCHANGED <<messages, disk, boundary_uuid, tail_uuids, new_messages, stats,
                   count, outcome, previous, opts,
                   cred_file, before>>
    /\ RunFrame

\* `if args.strip and not args.dry_run:` then `messages, strip_stats =
\* run_strip(messages)`: run_strip takes the list for a path, finds no
\* cozempic to run on it and returns None, and the assignment raises
\* TypeError; the write-back below it is not reached
CliStrip ==
    /\ pc = "cli_strip"
    /\ pc' = IF opts.strip /\ ~DryRun(opts) THEN "TypeError" ELSE "cli_boundary"
    /\ UNCHANGED <<messages, disk, backup_file, boundary_uuid, tail_uuids,
                   new_messages, stats, count, outcome, previous, log, opts,
                   cred_file, before>>
    /\ RunFrame

\* the `# Find boundary` block.  With --topic: `client = create_client()`,
\* `exchanges = extract_exchanges(messages)`, sys.exit(1) when there is
\* none, then find_boundary_by_topic on the answer of the service; with
\* --last: `boundary_uuid = find_boundary_by_count(messages, args.last)`.
\* A ValueError or a RuntimeError ends the command with sys.exit(1)
CliBoundary ==
    /\ pc = "cli_boundary"
    /\ IF opts.topic
       THEN \E c \in ClientOutcomes(cred_file), resp \in CliAnswers :
               LET exs == extract_exchanges(messages)
               IN  /\ cred_file' = c.file
                   /\ outcome' = IF c.ok /\ exs # <<>>
                                 THEN find_boundary_by_topic(exs, resp)
                                 ELSE NoOutcome
       ELSE /\ outcome' = find_boundary_by_count(messages, count)
            /\ UNCHANGED cred_file
    /\ IF outcome'.status = "ok"
       THEN /\ boundary_uuid' = outcome'.uuid
            /\ pc' = "cli_summarize"
       ELSE /\ pc' = "exit"
            /\ UNCHANGED boundary_uuid
    /\ UNCHANGED <<messages, disk, backup_file, tail_uuids, new_messages, stats,
                   count, previous, log, opts, before>>
    /\ RunFrame

\* the `# Summarize head` block.  `if not args.dry_run:` the client is
\* created unless --topic made it, the summary comes from the service and
\* compact is called with backup=False; `else:` the tail is collected and
\* the counts are printed
CliSummarize ==
    /\ pc = "cli_summarize"
    /\ IF DryRun(opts)
       THEN /\ tail_uuids' = collect_tail_uuids(messages, boundary_uuid)
            /\ pc' = "dry_run"
            /\ UNCHANGED cred_file
       ELSE /\ IF opts.topic
               THEN /\ pc' = FirstStep
                    /\ UNCHANGED cred_file
               ELSE \E c \in ClientOutcomes(cred_file) :
                       /\ cred_file' = c.file
                       /\ pc' = IF c.ok THEN FirstStep ELSE "exit"
            /\ UNCHANGED tail_uuids
    /\ UNCHANGED <<messages, disk, backup_file, boundary_uuid, new_messages, stats,
                   count, outcome, previous, log, opts, before>>
    /\ RunFrame

RunNext ==
    \/ RunAppend
    \/ RunCredentials
    \/ \E b \in 1..RunLines, strip \in BOOLEAN, backup \in BOOLEAN :
          CompactCall(b, strip, backup)
    \/ CompactBackup
    \/ CompactStrip
    \/ CompactLoad
    \/ CompactSplice
    \/ CompactSave
    \/ CompactReturn
    \/ \E n \in 1..2, strip \in BOOLEAN, no_backup \in BOOLEAN, dry_run \in BOOLEAN,
          topic \in BOOLEAN :
          CmdCompact(n, strip, no_backup, dry_run, topic)
    \/ CliBackup
    \/ CliStrip
    \/ CliBoundary
    \/ CliSummarize

RunSpec == GraphInit /\ [][RunNext]_vars

----------------------------------------------------------------------------
(* Properties of the compact command *)

\* the positions of pc after find_boundary_by_count returned a uuid to
\* cmd_compact
AfterBoundary ==
    {"backup", "strip", "load", "check", "BoundaryNotFound", "EmptyTail", "save",
     "stats", "compacted"}

\* C28: the uuid find_boundary_by_count returns is the non-empty uuid of a
\* record on the main chain of the record list it was given, and compact
\* called with it on the same, unmodified session file fails neither with
\* BoundaryNotFound nor with EmptyTail.
C28_BoundaryOnChain ==
    opts.entry = "cli" /\ ~opts.topic /\ pc \in AfterBoundary =>
        /\ outcome.status = "ok"
        /\ boundary_uuid = outcome.uuid
        /\ boundary_uuid # None
        /\ \E k \in 1..Len(walk_main_chain(load_messages(previous))) :
              load_messages(previous)[walk_main_chain(load_messages(previous))[k]].uuid
                 = boundary_uuid
        /\ pc \notin {"BoundaryNotFound", "EmptyTail"}

\* the command run with --last 2 on a file of three prompts, a sidecar
\* between them: the boundary is the second prompt and the splice is written
C28_Witness ==
    /\ opts.entry = "cli" /\ ~opts.topic
    /\ pc = "compacted"
    /\ count = 2
    /\ FileUuids(previous) = <<1, 2, 3>>
    /\ Len(previous) = 4
    /\ boundary_uuid = 2
    /\ tail_uuids = {2, 3}

====
